---- MODULE Spec2Model ----
(***************************************************************************)
(* A model of the hotkey resolution pipeline of matches-hotkeys:           *)
(* single-token key resolution (resolveKey), combination parsing           *)
(* (parseCombination) and the platform test (isMac / preMap) that both     *)
(* read.  Strings are TLA+ strings handled character by character, so      *)
(* lowercasing, trimming, splitting and substring search are computed.     *)
(***************************************************************************)
EXTENDS Integers, Sequences, FiniteSets, TLC

VARIABLES userAgent, call, returned, calledOn, result

vars == << userAgent, call, returned, calledOn, result >>

-----------------------------------------------------------------------------
(* String primitives of the host language.                                 *)

UpperCaseLetters == "ABCDEFGHIJKLMNOPQRSTUVWXYZ"

LowerCaseLetters == "abcdefghijklmnopqrstuvwxyz"

charAt(s, i) == SubSeq(s, i, i)

lowerCaseOf ==
  [c \in { charAt(UpperCaseLetters, i) : i \in 1..Len(UpperCaseLetters) } |->
     charAt(LowerCaseLetters,
            CHOOSE i \in 1..Len(UpperCaseLetters) : charAt(UpperCaseLetters, i) = c)]

lowerChar(c) == IF c \in DOMAIN lowerCaseOf THEN lowerCaseOf[c] ELSE c

RECURSIVE toLowerCase(_)
toLowerCase(s) ==
  IF s = "" THEN "" ELSE lowerChar(charAt(s, 1)) \o toLowerCase(SubSeq(s, 2, Len(s)))

upperCaseOf ==
  [c \in { charAt(LowerCaseLetters, i) : i \in 1..Len(LowerCaseLetters) } |->
     charAt(UpperCaseLetters,
            CHOOSE i \in 1..Len(LowerCaseLetters) : charAt(LowerCaseLetters, i) = c)]

upperChar(c) == IF c \in DOMAIN upperCaseOf THEN upperCaseOf[c] ELSE c

RECURSIVE toUpperCase(_)
toUpperCase(s) ==
  IF s = "" THEN "" ELSE upperChar(charAt(s, 1)) \o toUpperCase(SubSeq(s, 2, Len(s)))

includes(s, sub) ==
  \E i \in 1..(Len(s) - Len(sub) + 1) : SubSeq(s, i, i + Len(sub) - 1) = sub

(* A JavaScript Map built from a list of [k, v] entries: a later entry    *)
(* with the same key replaces an earlier one.                              *)
MapOf(entries) ==
  [key \in { entries[i].k : i \in 1..Len(entries) } |->
     entries[CHOOSE i \in 1..Len(entries) :
               /\ entries[i].k = key
               /\ \A j \in (i + 1)..Len(entries) : entries[j].k # key].v]

MapHas(map, key) == key \in DOMAIN map

MapGet(map, key) == map[key]

(* Array.prototype.flat / flatMap: the concatenation of a list of lists.   *)
RECURSIVE flattenRange(_, _, _)
flattenRange(ss, lo, hi) ==
  IF lo > hi THEN << >>
  ELSE IF lo = hi THEN ss[lo]
  ELSE flattenRange(ss, lo, (lo + hi) \div 2) \o flattenRange(ss, (lo + hi) \div 2 + 1, hi)

flatten(ss) == flattenRange(ss, 1, Len(ss))

Range(s) == { s[i] : i \in 1..Len(s) }

-----------------------------------------------------------------------------
(* The key registry (consts.ts), in declaration order.                     *)

(* The backquote character: a string literal cannot hold it on its own.   *)
Backtick == SubSeq("`'", 1, 1)

KEY_DEFINITIONS ==
  << [code |-> "KeyA", key |-> "a", keyCode |-> 65],
     [code |-> "KeyB", key |-> "b", keyCode |-> 66],
     [code |-> "KeyC", key |-> "c", keyCode |-> 67],
     [code |-> "KeyD", key |-> "d", keyCode |-> 68],
     [code |-> "KeyE", key |-> "e", keyCode |-> 69],
     [code |-> "KeyF", key |-> "f", keyCode |-> 70],
     [code |-> "KeyG", key |-> "g", keyCode |-> 71],
     [code |-> "KeyH", key |-> "h", keyCode |-> 72],
     [code |-> "KeyI", key |-> "i", keyCode |-> 73],
     [code |-> "KeyJ", key |-> "j", keyCode |-> 74],
     [code |-> "KeyK", key |-> "k", keyCode |-> 75],
     [code |-> "KeyL", key |-> "l", keyCode |-> 76],
     [code |-> "KeyM", key |-> "m", keyCode |-> 77],
     [code |-> "KeyN", key |-> "n", keyCode |-> 78],
     [code |-> "KeyO", key |-> "o", keyCode |-> 79],
     [code |-> "KeyP", key |-> "p", keyCode |-> 80],
     [code |-> "KeyQ", key |-> "q", keyCode |-> 81],
     [code |-> "KeyR", key |-> "r", keyCode |-> 82],
     [code |-> "KeyS", key |-> "s", keyCode |-> 83],
     [code |-> "KeyT", key |-> "t", keyCode |-> 84],
     [code |-> "KeyU", key |-> "u", keyCode |-> 85],
     [code |-> "KeyV", key |-> "v", keyCode |-> 86],
     [code |-> "KeyW", key |-> "w", keyCode |-> 87],
     [code |-> "KeyX", key |-> "x", keyCode |-> 88],
     [code |-> "KeyY", key |-> "y", keyCode |-> 89],
     [code |-> "KeyZ", key |-> "z", keyCode |-> 90],
     [code |-> "Digit0", key |-> "0", keyCode |-> 48],
     [code |-> "Digit1", key |-> "1", keyCode |-> 49],
     [code |-> "Digit2", key |-> "2", keyCode |-> 50],
     [code |-> "Digit3", key |-> "3", keyCode |-> 51],
     [code |-> "Digit4", key |-> "4", keyCode |-> 52],
     [code |-> "Digit5", key |-> "5", keyCode |-> 53],
     [code |-> "Digit6", key |-> "6", keyCode |-> 54],
     [code |-> "Digit7", key |-> "7", keyCode |-> 55],
     [code |-> "Digit8", key |-> "8", keyCode |-> 56],
     [code |-> "Digit9", key |-> "9", keyCode |-> 57],
     [code |-> "F1", key |-> "F1", keyCode |-> 112],
     [code |-> "F2", key |-> "F2", keyCode |-> 113],
     [code |-> "F3", key |-> "F3", keyCode |-> 114],
     [code |-> "F4", key |-> "F4", keyCode |-> 115],
     [code |-> "F5", key |-> "F5", keyCode |-> 116],
     [code |-> "F6", key |-> "F6", keyCode |-> 117],
     [code |-> "F7", key |-> "F7", keyCode |-> 118],
     [code |-> "F8", key |-> "F8", keyCode |-> 119],
     [code |-> "F9", key |-> "F9", keyCode |-> 120],
     [code |-> "F10", key |-> "F10", keyCode |-> 121],
     [code |-> "F11", key |-> "F11", keyCode |-> 122],
     [code |-> "F12", key |-> "F12", keyCode |-> 123],
     [code |-> "ShiftLeft", key |-> "Shift", keyCode |-> 16],
     [code |-> "ShiftRight", key |-> "Shift", keyCode |-> 16],
     [code |-> "ControlLeft", key |-> "Control", keyCode |-> 17],
     [code |-> "ControlRight", key |-> "Control", keyCode |-> 17],
     [code |-> "AltLeft", key |-> "Alt", keyCode |-> 18],
     [code |-> "AltRight", key |-> "Alt", keyCode |-> 18],
     [code |-> "MetaLeft", key |-> "Meta", keyCode |-> 91],
     [code |-> "MetaRight", key |-> "Meta", keyCode |-> 93],
     [code |-> "ArrowUp", key |-> "ArrowUp", keyCode |-> 38],
     [code |-> "ArrowDown", key |-> "ArrowDown", keyCode |-> 40],
     [code |-> "ArrowLeft", key |-> "ArrowLeft", keyCode |-> 37],
     [code |-> "ArrowRight", key |-> "ArrowRight", keyCode |-> 39],
     [code |-> "Home", key |-> "Home", keyCode |-> 36],
     [code |-> "End", key |-> "End", keyCode |-> 35],
     [code |-> "PageUp", key |-> "PageUp", keyCode |-> 33],
     [code |-> "PageDown", key |-> "PageDown", keyCode |-> 34],
     [code |-> "Backspace", key |-> "Backspace", keyCode |-> 8],
     [code |-> "Delete", key |-> "Delete", keyCode |-> 46],
     [code |-> "Insert", key |-> "Insert", keyCode |-> 45],
     [code |-> "Tab", key |-> "Tab", keyCode |-> 9],
     [code |-> "Enter", key |-> "Enter", keyCode |-> 13],
     [code |-> "Space", key |-> " ", keyCode |-> 32],
     [code |-> "Escape", key |-> "Escape", keyCode |-> 27],
     [code |-> "CapsLock", key |-> "CapsLock", keyCode |-> 20],
     [code |-> "NumLock", key |-> "NumLock", keyCode |-> 144],
     [code |-> "ScrollLock", key |-> "ScrollLock", keyCode |-> 145],
     [code |-> "Pause", key |-> "Pause", keyCode |-> 19],
     [code |-> "PrintScreen", key |-> "PrintScreen", keyCode |-> 44],
     [code |-> "Backquote", key |-> Backtick, keyCode |-> 192],
     [code |-> "Minus", key |-> "-", keyCode |-> 189],
     [code |-> "Equal", key |-> "=", keyCode |-> 187],
     [code |-> "BracketLeft", key |-> "[", keyCode |-> 219],
     [code |-> "BracketRight", key |-> "]", keyCode |-> 221],
     [code |-> "Backslash", key |-> "\\", keyCode |-> 220],
     [code |-> "Semicolon", key |-> ";", keyCode |-> 186],
     [code |-> "Quote", key |-> "'", keyCode |-> 222],
     [code |-> "Comma", key |-> ",", keyCode |-> 188],
     [code |-> "Period", key |-> ".", keyCode |-> 190],
     [code |-> "Slash", key |-> "/", keyCode |-> 191],
     [code |-> "Numpad0", key |-> "0", keyCode |-> 96],
     [code |-> "Numpad1", key |-> "1", keyCode |-> 97],
     [code |-> "Numpad2", key |-> "2", keyCode |-> 98],
     [code |-> "Numpad3", key |-> "3", keyCode |-> 99],
     [code |-> "Numpad4", key |-> "4", keyCode |-> 100],
     [code |-> "Numpad5", key |-> "5", keyCode |-> 101],
     [code |-> "Numpad6", key |-> "6", keyCode |-> 102],
     [code |-> "Numpad7", key |-> "7", keyCode |-> 103],
     [code |-> "Numpad8", key |-> "8", keyCode |-> 104],
     [code |-> "Numpad9", key |-> "9", keyCode |-> 105],
     [code |-> "NumpadDecimal", key |-> ".", keyCode |-> 110],
     [code |-> "NumpadDivide", key |-> "/", keyCode |-> 111],
     [code |-> "NumpadMultiply", key |-> "*", keyCode |-> 106],
     [code |-> "NumpadSubtract", key |-> "-", keyCode |-> 109],
     [code |-> "NumpadAdd", key |-> "+", keyCode |-> 107],
     [code |-> "NumpadEnter", key |-> "Enter", keyCode |-> 13],
     [code |-> "AudioVolumeUp", key |-> "AudioVolumeUp", keyCode |-> 175],
     [code |-> "AudioVolumeDown", key |-> "AudioVolumeDown", keyCode |-> 174],
     [code |-> "AudioVolumeMute", key |-> "AudioVolumeMute", keyCode |-> 173],
     [code |-> "MediaPlayPause", key |-> "MediaPlayPause", keyCode |-> 179],
     [code |-> "MediaStop", key |-> "MediaStop", keyCode |-> 178],
     [code |-> "MediaTrackNext", key |-> "MediaTrackNext", keyCode |-> 176],
     [code |-> "MediaTrackPrevious", key |-> "MediaTrackPrevious", keyCode |-> 177],
     [code |-> "BrowserBack", key |-> "BrowserBack", keyCode |-> 166],
     [code |-> "BrowserForward", key |-> "BrowserForward", keyCode |-> 167],
     [code |-> "BrowserRefresh", key |-> "BrowserRefresh", keyCode |-> 168],
     [code |-> "BrowserHome", key |-> "BrowserHome", keyCode |-> 172],
     [code |-> "BrowserSearch", key |-> "BrowserSearch", keyCode |-> 170],
     [code |-> "BrowserFavorites", key |-> "BrowserFavorites", keyCode |-> 171],
     [code |-> "LaunchMail", key |-> "LaunchMail", keyCode |-> 180],
     [code |-> "LaunchApp1", key |-> "LaunchApp1", keyCode |-> 182],
     [code |-> "LaunchApp2", key |-> "LaunchApp2", keyCode |-> 183],
     [code |-> "MediaSelect", key |-> "MediaSelect", keyCode |-> 181],
     [code |-> "IntlBackslash", key |-> "\\", keyCode |-> 226],
     [code |-> "IntlRo", key |-> "ろ", keyCode |-> 193],
     [code |-> "IntlYen", key |-> "¥", keyCode |-> 255] >>

SHIFT_KEY_MAPPINGS ==
  << [code |-> "Equal", shiftedKey |-> "+"],
     [code |-> "Digit1", shiftedKey |-> "!"],
     [code |-> "Digit2", shiftedKey |-> "@"],
     [code |-> "Digit3", shiftedKey |-> "#"],
     [code |-> "Digit4", shiftedKey |-> "$"],
     [code |-> "Digit5", shiftedKey |-> "%"],
     [code |-> "Digit6", shiftedKey |-> "^"],
     [code |-> "Digit7", shiftedKey |-> "&"],
     [code |-> "Digit8", shiftedKey |-> "*"],
     [code |-> "Digit9", shiftedKey |-> "("],
     [code |-> "Digit0", shiftedKey |-> ")"],
     [code |-> "Minus", shiftedKey |-> "_"],
     [code |-> "Backquote", shiftedKey |-> "~"],
     [code |-> "BracketLeft", shiftedKey |-> "{"],
     [code |-> "BracketRight", shiftedKey |-> "}"],
     [code |-> "Backslash", shiftedKey |-> "|"],
     [code |-> "Semicolon", shiftedKey |-> ":"],
     [code |-> "Quote", shiftedKey |-> "\""],
     [code |-> "Comma", shiftedKey |-> "<"],
     [code |-> "Period", shiftedKey |-> ">"],
     [code |-> "Slash", shiftedKey |-> "?"] >>

KEY_ALIASES ==
  << [key |-> "Alt", aliases |-> << "option" >>],
     [key |-> "Meta", aliases |-> << "win", "windows", "cmd", "command" >>],
     [key |-> "Control", aliases |-> << "ctrl" >>],
     [key |-> "Escape", aliases |-> << "esc" >>],
     [key |-> "Enter", aliases |-> << "return" >>],
     [key |-> "Delete", aliases |-> << "del" >>],
     [key |-> "Insert", aliases |-> << "ins" >>],
     [key |-> "CapsLock", aliases |-> << "caps" >>],
     [key |-> "PrintScreen", aliases |-> << "printscreen", "prtsc" >>],
     [key |-> "ArrowUp", aliases |-> << "up" >>],
     [key |-> "ArrowDown", aliases |-> << "down" >>],
     [key |-> "ArrowLeft", aliases |-> << "left" >>],
     [key |-> "ArrowRight", aliases |-> << "right" >>],
     [key |-> "PageUp", aliases |-> << "pgup" >>],
     [key |-> "PageDown", aliases |-> << "pgdn" >>],
     [key |-> Backtick, aliases |-> << "grave", "backtick" >>],
     [key |-> "-", aliases |-> << "minus", "dash" >>],
     [key |-> "=", aliases |-> << "equal", "equals" >>],
     [key |-> "[", aliases |-> << "openbracket", "leftbracket" >>],
     [key |-> "]", aliases |-> << "closebracket", "rightbracket" >>],
     [key |-> ";", aliases |-> << "semicolon" >>],
     [key |-> "'", aliases |-> << "quote", "apostrophe" >>],
     [key |-> ".", aliases |-> << "period", "dot" >>],
     [key |-> " ", aliases |-> << "space" >>] >>

CODE_ALIASES ==
  << [code |-> "ShiftLeft", aliases |-> << "leftshift", "lshift" >>],
     [code |-> "ShiftRight", aliases |-> << "rightshift", "rshift" >>],
     [code |-> "ControlLeft", aliases |-> << "leftctrl", "lctrl", "leftcontrol" >>],
     [code |-> "ControlRight", aliases |-> << "rightctrl", "rctrl", "rightcontrol" >>],
     [code |-> "AltLeft", aliases |-> << "leftalt", "lalt", "leftoption" >>],
     [code |-> "AltRight", aliases |-> << "rightalt", "ralt", "rightoption" >>],
     [code |-> "MetaLeft", aliases |-> << "leftmeta", "lmeta", "leftcmd", "lcmd" >>],
     [code |-> "MetaRight", aliases |-> << "rightmeta", "rmeta", "rightcmd", "rcmd" >>],
     [code |-> "NumpadDecimal", aliases |-> << "numpaddot" >>],
     [code |-> "NumpadDivide", aliases |-> << "numpadslash" >>],
     [code |-> "NumpadMultiply", aliases |-> << "numpadstar" >>],
     [code |-> "NumpadSubtract", aliases |-> << "numpadminus" >>],
     [code |-> "NumpadAdd", aliases |-> << "numpadplus" >>] >>

MODIFIER_KEY_DEFINITIONS ==
  << [key |-> "Meta", prop |-> "metaKey"],
     [key |-> "Control", prop |-> "ctrlKey"],
     [key |-> "Shift", prop |-> "shiftKey"],
     [key |-> "Alt", prop |-> "altKey"] >>

(* KEY_DEFINITIONS[code]: the definition declared under that exact code.   *)
hasDefinition(code) == \E i \in 1..Len(KEY_DEFINITIONS) : KEY_DEFINITIONS[i].code = code

definitionOf(code) ==
  KEY_DEFINITIONS[CHOOSE i \in 1..Len(KEY_DEFINITIONS) : KEY_DEFINITIONS[i].code = code]

(* MODIFIER_KEY_DEFINITIONS[key], the "key in MODIFIER_KEY_DEFINITIONS" test *)
isModifierKey(key) ==
  \E i \in 1..Len(MODIFIER_KEY_DEFINITIONS) : MODIFIER_KEY_DEFINITIONS[i].key = key

modifierPropOf(key) ==
  MODIFIER_KEY_DEFINITIONS[CHOOSE i \in 1..Len(MODIFIER_KEY_DEFINITIONS) :
                             MODIFIER_KEY_DEFINITIONS[i].key = key].prop

LOWERCASE_CODE_MAP ==
  MapOf([i \in 1..Len(KEY_DEFINITIONS) |->
     [k |-> toLowerCase(KEY_DEFINITIONS[i].code),
      v |-> [key |-> KEY_DEFINITIONS[i].key,
             keyCode |-> KEY_DEFINITIONS[i].keyCode,
             code |-> KEY_DEFINITIONS[i].code]]])

CODE_ALIAS_MAP ==
  MapOf(flatten([i \in 1..Len(CODE_ALIASES) |->
     [j \in 1..Len(CODE_ALIASES[i].aliases) |->
        [k |-> toLowerCase(CODE_ALIASES[i].aliases[j]),
         v |-> [key |-> definitionOf(CODE_ALIASES[i].code).key,
                keyCode |-> definitionOf(CODE_ALIASES[i].code).keyCode,
                code |-> CODE_ALIASES[i].code]]]]))

(* MODIFIER_KEY_MAP without the code aliases of the modifiers.              *)
MODIFIER_KEY_MAP_WithoutCodeAliases ==
  MapOf(
    [i \in 1..Len(MODIFIER_KEY_DEFINITIONS) |->
       [k |-> toLowerCase(MODIFIER_KEY_DEFINITIONS[i].key),
        v |-> MODIFIER_KEY_DEFINITIONS[i].prop]]
    \o
    flatten([i \in 1..Len(KEY_ALIASES) |->
       IF ~isModifierKey(KEY_ALIASES[i].key) THEN << >>
       ELSE [j \in 1..Len(KEY_ALIASES[i].aliases) |->
               [k |-> toLowerCase(KEY_ALIASES[i].aliases[j]),
                v |-> modifierPropOf(KEY_ALIASES[i].key)]]])
    \o
    flatten([i \in 1..Len(KEY_DEFINITIONS) |->
       IF ~isModifierKey(KEY_DEFINITIONS[i].key) THEN << >>
       ELSE << [k |-> toLowerCase(KEY_DEFINITIONS[i].code),
                v |-> modifierPropOf(KEY_DEFINITIONS[i].key)] >>]))

MODIFIER_KEY_MAP ==
  MapOf(
    [i \in 1..Len(MODIFIER_KEY_DEFINITIONS) |->
       [k |-> toLowerCase(MODIFIER_KEY_DEFINITIONS[i].key),
        v |-> MODIFIER_KEY_DEFINITIONS[i].prop]]
    \o
    flatten([i \in 1..Len(KEY_ALIASES) |->
       IF ~isModifierKey(KEY_ALIASES[i].key) THEN << >>
       ELSE [j \in 1..Len(KEY_ALIASES[i].aliases) |->
               [k |-> toLowerCase(KEY_ALIASES[i].aliases[j]),
                v |-> modifierPropOf(KEY_ALIASES[i].key)]]])
    \o
    flatten([i \in 1..Len(KEY_DEFINITIONS) |->
       IF ~isModifierKey(KEY_DEFINITIONS[i].key) THEN << >>
       ELSE << [k |-> toLowerCase(KEY_DEFINITIONS[i].code),
                v |-> modifierPropOf(KEY_DEFINITIONS[i].key)] >>])
    \o
    flatten([i \in 1..Len(CODE_ALIASES) |->
       IF ~(hasDefinition(CODE_ALIASES[i].code)
            /\ isModifierKey(definitionOf(CODE_ALIASES[i].code).key)) THEN << >>
       ELSE [j \in 1..Len(CODE_ALIASES[i].aliases) |->
               [k |-> toLowerCase(CODE_ALIASES[i].aliases[j]),
                v |-> modifierPropOf(definitionOf(CODE_ALIASES[i].code).key)]]]))

MODIFIER_CODE_TOKENS ==
  { toLowerCase(KEY_DEFINITIONS[i].code) :
      i \in { n \in 1..Len(KEY_DEFINITIONS) : isModifierKey(KEY_DEFINITIONS[n].key) } }
  \cup
  UNION { { toLowerCase(CODE_ALIASES[i].aliases[j]) : j \in 1..Len(CODE_ALIASES[i].aliases) } :
            i \in { n \in 1..Len(CODE_ALIASES) :
                      /\ hasDefinition(CODE_ALIASES[n].code)
                      /\ isModifierKey(definitionOf(CODE_ALIASES[n].code).key) } }

-----------------------------------------------------------------------------
(* Platform test and token substitution (preMap.ts).                       *)

isMac(ua) == includes(ua, "Mac")

(* preMap that takes "mod" for Control on every platform.                  *)
preMapAlwaysControl(normalizedInput, ua) ==
  IF normalizedInput = "mod" THEN "control" ELSE normalizedInput

preMap(normalizedInput, ua) ==
  IF normalizedInput = "mod"
    THEN (IF isMac(ua) THEN "meta" ELSE "control")
    ELSE normalizedInput

-----------------------------------------------------------------------------
(* Key resolution (resolveKey.ts).                                         *)

ResolvedOf(entry) ==
  [key |-> entry.key, code |-> entry.code, keyCode |-> entry.keyCode, which |-> entry.keyCode]

foundByCode(input) == MapHas(LOWERCASE_CODE_MAP, input)

findByCode(input) == ResolvedOf(MapGet(LOWERCASE_CODE_MAP, input))

foundByCodeAlias(input) == MapHas(CODE_ALIAS_MAP, input)

findByCodeAlias(input) == ResolvedOf(MapGet(CODE_ALIAS_MAP, input))

(* definition.key.toLowerCase() and shiftedKey.toLowerCase() for every     *)
(* entry, and the lowercased aliases of every KEY_ALIASES entry.           *)
lowerCaseKeys == [i \in 1..Len(KEY_DEFINITIONS) |-> toLowerCase(KEY_DEFINITIONS[i].key)]

lowerCaseShiftedKeys ==
  [i \in 1..Len(SHIFT_KEY_MAPPINGS) |-> toLowerCase(SHIFT_KEY_MAPPINGS[i].shiftedKey)]

lowerCaseKeyAliases ==
  [i \in 1..Len(KEY_ALIASES) |->
     { toLowerCase(KEY_ALIASES[i].aliases[j]) : j \in 1..Len(KEY_ALIASES[i].aliases) }]

(* The two scans shared by findByKey and findByKeyAlias: the definitions   *)
(* whose key lowercases to wanted, then the shift mappings whose shifted   *)
(* character lowercases to wanted, each in declaration order.              *)
directMatches(wanted) ==
  LET Matches(i) == lowerCaseKeys[i] = wanted
      matched == SelectSeq([i \in 1..Len(KEY_DEFINITIONS) |-> i], Matches)
  IN  [n \in 1..Len(matched) |->
         [key |-> KEY_DEFINITIONS[matched[n]].key,
          code |-> KEY_DEFINITIONS[matched[n]].code,
          keyCode |-> KEY_DEFINITIONS[matched[n]].keyCode,
          which |-> KEY_DEFINITIONS[matched[n]].keyCode]]

shiftedMatches(wanted) ==
  LET Matches(i) ==
        /\ lowerCaseShiftedKeys[i] = wanted
        /\ hasDefinition(SHIFT_KEY_MAPPINGS[i].code)
      matched == SelectSeq([i \in 1..Len(SHIFT_KEY_MAPPINGS) |-> i], Matches)
  IN  [n \in 1..Len(matched) |->
         [key |-> SHIFT_KEY_MAPPINGS[matched[n]].shiftedKey,
          code |-> SHIFT_KEY_MAPPINGS[matched[n]].code,
          keyCode |-> definitionOf(SHIFT_KEY_MAPPINGS[matched[n]].code).keyCode,
          which |-> definitionOf(SHIFT_KEY_MAPPINGS[matched[n]].code).keyCode]]

(* findByKey with the shift-derived records ahead of the direct ones.      *)
findByKeyShiftedFirst(input) == shiftedMatches(input) \o directMatches(input)

findByKey(input) == directMatches(input) \o shiftedMatches(input)

aliasEntryFound(input) == \E i \in 1..Len(KEY_ALIASES) : input \in lowerCaseKeyAliases[i]

aliasEntry(input) ==
  KEY_ALIASES[CHOOSE i \in 1..Len(KEY_ALIASES) :
                /\ input \in lowerCaseKeyAliases[i]
                /\ \A h \in 1..(i - 1) : input \notin lowerCaseKeyAliases[h]]

(* findByKeyAlias keeping only the first definition of the aliased key.    *)
findByKeyAliasFirstOnly(input) ==
  IF ~aliasEntryFound(input) THEN << >>
  ELSE SubSeq(directMatches(toLowerCase(aliasEntry(input).key)), 1, 1)

findByKeyAlias(input) ==
  IF ~aliasEntryFound(input) THEN << >>
  ELSE directMatches(toLowerCase(aliasEntry(input).key))
       \o shiftedMatches(toLowerCase(aliasEntry(input).key))

(* resolveKey with the key-alias stage tried before the code stages.       *)
resolveKeyKeyAliasFirst(input, ua) ==
  IF input = "" THEN << >>
  ELSE LET normalizedInput == preMap(toLowerCase(input), ua)
       IN  IF Len(findByKeyAlias(normalizedInput)) > 0
             THEN findByKeyAlias(normalizedInput)
           ELSE IF foundByCode(normalizedInput) THEN << findByCode(normalizedInput) >>
           ELSE IF foundByCodeAlias(normalizedInput) THEN << findByCodeAlias(normalizedInput) >>
           ELSE IF Len(findByKey(normalizedInput)) > 0 THEN findByKey(normalizedInput)
           ELSE << [key |-> input, code |-> input, keyCode |-> -1, which |-> -1] >>

(* resolveKey with the key-value stage tried before the code stages.       *)
resolveKeyKeyValueFirst(input, ua) ==
  IF input = "" THEN << >>
  ELSE LET normalizedInput == preMap(toLowerCase(input), ua)
       IN  IF Len(findByKey(normalizedInput)) > 0 THEN findByKey(normalizedInput)
           ELSE IF foundByCode(normalizedInput) THEN << findByCode(normalizedInput) >>
           ELSE IF foundByCodeAlias(normalizedInput) THEN << findByCodeAlias(normalizedInput) >>
           ELSE IF Len(findByKeyAlias(normalizedInput)) > 0
             THEN findByKeyAlias(normalizedInput)
           ELSE << [key |-> input, code |-> input, keyCode |-> -1, which |-> -1] >>

(* resolveKey without the fallback record.                                  *)
resolveKeyNoFallback(input, ua) ==
  IF input = "" THEN << >>
  ELSE LET normalizedInput == preMap(toLowerCase(input), ua)
       IN  IF foundByCode(normalizedInput) THEN << findByCode(normalizedInput) >>
           ELSE IF foundByCodeAlias(normalizedInput) THEN << findByCodeAlias(normalizedInput) >>
           ELSE IF Len(findByKey(normalizedInput)) > 0 THEN findByKey(normalizedInput)
           ELSE findByKeyAlias(normalizedInput)

resolveKey(input, ua) ==
  IF input = "" THEN << >>
  ELSE LET normalizedInput == preMap(toLowerCase(input), ua)
       IN  IF foundByCode(normalizedInput) THEN << findByCode(normalizedInput) >>
           ELSE IF foundByCodeAlias(normalizedInput) THEN << findByCodeAlias(normalizedInput) >>
           ELSE IF Len(findByKey(normalizedInput)) > 0 THEN findByKey(normalizedInput)
           ELSE IF Len(findByKeyAlias(normalizedInput)) > 0
             THEN findByKeyAlias(normalizedInput)
           ELSE << [key |-> input, code |-> input, keyCode |-> -1, which |-> -1] >>

-----------------------------------------------------------------------------
(* Combination parsing (parseCombination).                                 *)

(* String.prototype.split with a string separator: an empty separator      *)
(* splits into single characters, otherwise the text is cut at every       *)
(* occurrence found scanning from the left.                                *)
RECURSIVE splitFrom(_, _, _)
splitFrom(rest, sep, acc) ==
  IF Len(rest) < Len(sep) THEN << acc \o rest >>
  ELSE IF SubSeq(rest, 1, Len(sep)) = sep
         THEN << acc >> \o splitFrom(SubSeq(rest, Len(sep) + 1, Len(rest)), sep, "")
         ELSE splitFrom(SubSeq(rest, 2, Len(rest)), sep, acc \o charAt(rest, 1))

(* split that cuts the text at the first occurrence only.                  *)
splitAtFirst(s, sep) ==
  IF sep = "" THEN [i \in 1..Len(s) |-> charAt(s, i)]
  ELSE LET first == splitFrom(s, sep, "")[1]
       IN  IF Len(first) = Len(s) THEN << s >>
           ELSE << first, SubSeq(s, Len(first) + Len(sep) + 1, Len(s)) >>

split(s, sep) ==
  IF sep = "" THEN [i \in 1..Len(s) |-> charAt(s, i)] ELSE splitFrom(s, sep, "")

(* String.prototype.trim over the white space characters used here.        *)
WhiteSpace == { " ", "\t", "\n", "\r" }

RECURSIVE trimStart(_)
trimStart(s) ==
  IF s # "" /\ charAt(s, 1) \in WhiteSpace THEN trimStart(SubSeq(s, 2, Len(s))) ELSE s

RECURSIVE trimEnd(_)
trimEnd(s) ==
  IF s # "" /\ charAt(s, Len(s)) \in WhiteSpace THEN trimEnd(SubSeq(s, 1, Len(s) - 1)) ELSE s

trim(s) == trimEnd(trimStart(s))

(* Destructuring defaults of the options parameter: a field that is not    *)
(* given takes its default.                                                *)
optSplitBy(options) == IF "splitBy" \in options.given THEN options.splitBy ELSE "+"

optAllowCodeAsModifier(options) ==
  IF "allowCodeAsModifier" \in options.given THEN options.allowCodeAsModifier ELSE TRUE

(* optInferShift with the default turned on.                               *)
optInferShiftDefaultOn(options) ==
  IF "inferShift" \in options.given THEN options.inferShift ELSE TRUE

optInferShift(options) == IF "inferShift" \in options.given THEN options.inferShift ELSE FALSE

(* resolvedTrim with the same default for arrays as for strings.           *)
resolvedTrimDefaultOn(combination, options) ==
  IF "trim" \in options.given THEN options.trim ELSE TRUE

resolvedTrim(combination, options) ==
  IF "trim" \in options.given THEN options.trim ELSE ~combination.isArray

rawTokens(combination, options) ==
  IF combination.isArray THEN combination.tokens
  ELSE split(combination.text, optSplitBy(options))

(* normalizedParts that keeps the letter case of the tokens.                *)
normalizedPartsKeepingCase(combination, options) ==
  LET raw == rawTokens(combination, options)
  IN  [i \in 1..Len(raw) |->
         IF resolvedTrim(combination, options) THEN trim(raw[i]) ELSE raw[i]]

normalizedParts(combination, options) ==
  LET raw == rawTokens(combination, options)
  IN  [i \in 1..Len(raw) |->
         toLowerCase(IF resolvedTrim(combination, options) THEN trim(raw[i]) ELSE raw[i])]

(* The loop over all parts but the last: the set of modifier flags seen,   *)
(* or a rejection.                                                          *)
(* scanModifiers passing over a token that is not a modifier.              *)
RECURSIVE scanModifiersSkipping(_, _, _, _, _)
scanModifiersSkipping(parts, i, seenModifiers, allowCodeAsModifier, ua) ==
  IF i >= Len(parts) THEN [valid |-> TRUE, seenModifiers |-> seenModifiers]
  ELSE LET normalizedPart == preMap(parts[i], ua)
       IN  IF ~MapHas(MODIFIER_KEY_MAP, normalizedPart)
             THEN scanModifiersSkipping(parts, i + 1, seenModifiers, allowCodeAsModifier, ua)
           ELSE IF ~allowCodeAsModifier /\ normalizedPart \in MODIFIER_CODE_TOKENS
             THEN [valid |-> FALSE, seenModifiers |-> seenModifiers]
           ELSE IF MapGet(MODIFIER_KEY_MAP, normalizedPart) \in seenModifiers
             THEN [valid |-> FALSE, seenModifiers |-> seenModifiers]
           ELSE scanModifiersSkipping(parts, i + 1,
                  seenModifiers \cup { MapGet(MODIFIER_KEY_MAP, normalizedPart) },
                  allowCodeAsModifier, ua)

(* scanModifiers without the duplicate check.                               *)
RECURSIVE scanModifiersNoDuplicateCheck(_, _, _, _, _)
scanModifiersNoDuplicateCheck(parts, i, seenModifiers, allowCodeAsModifier, ua) ==
  IF i >= Len(parts) THEN [valid |-> TRUE, seenModifiers |-> seenModifiers]
  ELSE LET normalizedPart == preMap(parts[i], ua)
       IN  IF ~MapHas(MODIFIER_KEY_MAP, normalizedPart)
             THEN [valid |-> FALSE, seenModifiers |-> seenModifiers]
           ELSE IF ~allowCodeAsModifier /\ normalizedPart \in MODIFIER_CODE_TOKENS
             THEN [valid |-> FALSE, seenModifiers |-> seenModifiers]
           ELSE scanModifiersNoDuplicateCheck(parts, i + 1,
                  seenModifiers \cup { MapGet(MODIFIER_KEY_MAP, normalizedPart) },
                  allowCodeAsModifier, ua)

(* scanModifiers that never looks at allowCodeAsModifier.                   *)
RECURSIVE scanModifiersAnyCode(_, _, _, _, _)
scanModifiersAnyCode(parts, i, seenModifiers, allowCodeAsModifier, ua) ==
  IF i >= Len(parts) THEN [valid |-> TRUE, seenModifiers |-> seenModifiers]
  ELSE LET normalizedPart == preMap(parts[i], ua)
       IN  IF ~MapHas(MODIFIER_KEY_MAP, normalizedPart)
             THEN [valid |-> FALSE, seenModifiers |-> seenModifiers]
           ELSE IF MapGet(MODIFIER_KEY_MAP, normalizedPart) \in seenModifiers
             THEN [valid |-> FALSE, seenModifiers |-> seenModifiers]
           ELSE scanModifiersAnyCode(parts, i + 1,
                  seenModifiers \cup { MapGet(MODIFIER_KEY_MAP, normalizedPart) },
                  allowCodeAsModifier, ua)

RECURSIVE scanModifiers(_, _, _, _, _)
scanModifiers(parts, i, seenModifiers, allowCodeAsModifier, ua) ==
  IF i >= Len(parts) THEN [valid |-> TRUE, seenModifiers |-> seenModifiers]
  ELSE LET normalizedPart == preMap(parts[i], ua)
       IN  IF ~MapHas(MODIFIER_KEY_MAP, normalizedPart)
             THEN [valid |-> FALSE, seenModifiers |-> seenModifiers]
           ELSE IF ~allowCodeAsModifier /\ normalizedPart \in MODIFIER_CODE_TOKENS
             THEN [valid |-> FALSE, seenModifiers |-> seenModifiers]
           ELSE IF MapGet(MODIFIER_KEY_MAP, normalizedPart) \in seenModifiers
             THEN [valid |-> FALSE, seenModifiers |-> seenModifiers]
           ELSE scanModifiers(parts, i + 1,
                              seenModifiers \cup { MapGet(MODIFIER_KEY_MAP, normalizedPart) },
                              allowCodeAsModifier, ua)

(* The last part: rejected when it names a flag already seen, otherwise    *)
(* its own flag (if any) is added.                                          *)
(* lastPartScan without the duplicate check.                                *)
lastPartScanNoDuplicateCheck(normalizedLastPart, seenModifiers) ==
  IF MapHas(MODIFIER_KEY_MAP, normalizedLastPart)
    THEN [valid |-> TRUE,
          seenModifiers |-> seenModifiers
                              \cup { MapGet(MODIFIER_KEY_MAP, normalizedLastPart) }]
    ELSE [valid |-> TRUE, seenModifiers |-> seenModifiers]

(* lastPartScan that does not record the last part's own flag.              *)
lastPartScanNoOwnFlag(normalizedLastPart, seenModifiers) ==
  IF MapHas(MODIFIER_KEY_MAP, normalizedLastPart)
    THEN (IF MapGet(MODIFIER_KEY_MAP, normalizedLastPart) \in seenModifiers
            THEN [valid |-> FALSE, seenModifiers |-> seenModifiers]
            ELSE [valid |-> TRUE, seenModifiers |-> seenModifiers])
    ELSE [valid |-> TRUE, seenModifiers |-> seenModifiers]

lastPartScan(normalizedLastPart, seenModifiers) ==
  IF MapHas(MODIFIER_KEY_MAP, normalizedLastPart)
    THEN (IF MapGet(MODIFIER_KEY_MAP, normalizedLastPart) \in seenModifiers
            THEN [valid |-> FALSE, seenModifiers |-> seenModifiers]
            ELSE [valid |-> TRUE,
                  seenModifiers |-> seenModifiers
                                      \cup { MapGet(MODIFIER_KEY_MAP, normalizedLastPart) }])
    ELSE [valid |-> TRUE, seenModifiers |-> seenModifiers]

(* isShiftDerived that looks at the character only, not at the code.       *)
isShiftDerivedByKeyOnly(resolved, inferShift) ==
  /\ inferShift
  /\ \E i \in 1..Len(SHIFT_KEY_MAPPINGS) : resolved.key = SHIFT_KEY_MAPPINGS[i].shiftedKey

(* isShiftDerived that never infers.                                        *)
isShiftDerivedNever(resolved, inferShift) == FALSE

isShiftDerived(resolved, inferShift) ==
  /\ inferShift
  /\ \E i \in 1..Len(SHIFT_KEY_MAPPINGS) :
       /\ resolved.code = SHIFT_KEY_MAPPINGS[i].code
       /\ resolved.key = SHIFT_KEY_MAPPINGS[i].shiftedKey

(* variantOf that leaves out the which field.                              *)
variantOfWithoutWhich(resolved, seenModifiers, inferShift) ==
  [metaKey |-> "metaKey" \in seenModifiers,
   ctrlKey |-> "ctrlKey" \in seenModifiers,
   shiftKey |-> isShiftDerived(resolved, inferShift) \/ "shiftKey" \in seenModifiers,
   altKey |-> "altKey" \in seenModifiers,
   key |-> resolved.key,
   code |-> resolved.code,
   keyCode |-> resolved.keyCode]

(* variantOf with the meta and ctrl flags exchanged.                        *)
variantOfMetaCtrlSwapped(resolved, seenModifiers, inferShift) ==
  [metaKey |-> "ctrlKey" \in seenModifiers,
   ctrlKey |-> "metaKey" \in seenModifiers,
   shiftKey |-> isShiftDerived(resolved, inferShift) \/ "shiftKey" \in seenModifiers,
   altKey |-> "altKey" \in seenModifiers,
   key |-> resolved.key,
   code |-> resolved.code,
   keyCode |-> resolved.keyCode,
   which |-> resolved.which]

variantOf(resolved, seenModifiers, inferShift) ==
  [metaKey |-> "metaKey" \in seenModifiers,
   ctrlKey |-> "ctrlKey" \in seenModifiers,
   shiftKey |-> isShiftDerived(resolved, inferShift) \/ "shiftKey" \in seenModifiers,
   altKey |-> "altKey" \in seenModifiers,
   key |-> resolved.key,
   code |-> resolved.code,
   keyCode |-> resolved.keyCode,
   which |-> resolved.which]

(* parseCombination in which a main key unknown to the registry resolves to *)
(* nothing.                                                                 *)
parseCombinationRejectingUnknown(combination, options, ua) ==
  LET parts == normalizedParts(combination, options)
  IN  IF \E i \in 1..Len(parts) : parts[i] = "" THEN << >>
      ELSE IF Len(parts) = 0 THEN << >>
      ELSE LET leading == scanModifiers(parts, 1, {}, optAllowCodeAsModifier(options), ua)
           IN  IF ~leading.valid THEN << >>
               ELSE LET normalizedLastPart == preMap(parts[Len(parts)], ua)
                        last == lastPartScan(normalizedLastPart, leading.seenModifiers)
                    IN  IF ~last.valid THEN << >>
                        ELSE LET resolvedKeys == SelectSeq(resolveKey(normalizedLastPart, ua),
                                                           LAMBDA r : r.keyCode # -1)
                             IN  IF Len(resolvedKeys) = 0 THEN << >>
                                 ELSE [n \in 1..Len(resolvedKeys) |->
                                         variantOf(resolvedKeys[n], last.seenModifiers,
                                                   optInferShift(options))]

parseCombination(combination, options, ua) ==
  LET parts == normalizedParts(combination, options)
  IN  IF \E i \in 1..Len(parts) : parts[i] = "" THEN << >>
      ELSE IF Len(parts) = 0 THEN << >>
      ELSE LET leading == scanModifiers(parts, 1, {}, optAllowCodeAsModifier(options), ua)
           IN  IF ~leading.valid THEN << >>
               ELSE LET normalizedLastPart == preMap(parts[Len(parts)], ua)
                        last == lastPartScan(normalizedLastPart, leading.seenModifiers)
                    IN  IF ~last.valid THEN << >>
                        ELSE LET resolvedKeys == resolveKey(normalizedLastPart, ua)
                             IN  IF Len(resolvedKeys) = 0 THEN << >>
                                 ELSE [n \in 1..Len(resolvedKeys) |->
                                         variantOf(resolvedKeys[n], last.seenModifiers,
                                                   optInferShift(options))]

-----------------------------------------------------------------------------
(* Comparators (comparators.ts).  A comparator is the closure built by eq, *)
(* and, or: the combinator and the arguments it was built from.            *)

eq(keys) == [op |-> "eq", keys |-> keys, conds |-> << >>]

and(conds) == [op |-> "and", keys |-> << >>, conds |-> conds]

or(conds) == [op |-> "or", keys |-> << >>, conds |-> conds]

RECURSIVE compare(_, _, _)
RECURSIVE everyCond(_, _, _, _)
RECURSIVE someCond(_, _, _, _)

(* Array.prototype.every over the field names of eq.                        *)
RECURSIVE everyKey(_, _, _, _)
everyKey(keys, i, a, b) ==
  IF i > Len(keys) THEN TRUE
  ELSE IF a[keys[i]] # b[keys[i]] THEN FALSE
  ELSE everyKey(keys, i + 1, a, b)

(* everyCond that stops after the first comparator.                         *)
everyCondFirstOnly(conds, i, a, b) ==
  IF i > Len(conds) THEN TRUE ELSE compare(conds[i], a, b)

(* Array.prototype.every over the comparators of and: stops at the first   *)
(* one that fails.                                                          *)
everyCond(conds, i, a, b) ==
  IF i > Len(conds) THEN TRUE
  ELSE IF ~compare(conds[i], a, b) THEN FALSE
  ELSE everyCond(conds, i + 1, a, b)

(* Array.prototype.some over the comparators of or: stops at the first one *)
(* that holds.                                                              *)
someCond(conds, i, a, b) ==
  IF i > Len(conds) THEN FALSE
  ELSE IF compare(conds[i], a, b) THEN TRUE
  ELSE someCond(conds, i + 1, a, b)

(* Calling a comparator on two records.                                     *)
compare(comparator, a, b) ==
  CASE comparator.op = "eq" -> everyKey(comparator.keys, 1, a, b)
    [] comparator.op = "and" -> everyCond(comparator.conds, 1, a, b)
    [] comparator.op = "or" -> someCond(comparator.conds, 1, a, b)

(* MODIFIERS_COMPARATOR that does not look at shiftKey.                     *)
MODIFIERS_COMPARATOR_WithoutShift == eq(<< "altKey", "ctrlKey", "metaKey" >>)

MODIFIERS_COMPARATOR == eq(<< "altKey", "ctrlKey", "metaKey", "shiftKey" >>)

COMPARE_BY_KEY == and(<< eq(<< "key" >>), MODIFIERS_COMPARATOR >>)

COMPARE_BY_CODE == and(<< eq(<< "code" >>), MODIFIERS_COMPARATOR >>)

COMPARE_BY_WHICH == and(<< eq(<< "which" >>), MODIFIERS_COMPARATOR >>)

COMPARE_BY_KEY_CODE == and(<< eq(<< "keyCode" >>), MODIFIERS_COMPARATOR >>)

(* DEFAULT_COMPARATOR without the comparison by key.                        *)
DEFAULT_COMPARATOR_WithoutKey ==
  or(<< COMPARE_BY_CODE, COMPARE_BY_WHICH, COMPARE_BY_KEY_CODE >>)

DEFAULT_COMPARATOR ==
  or(<< COMPARE_BY_KEY, COMPARE_BY_CODE, COMPARE_BY_WHICH, COMPARE_BY_KEY_CODE >>)

-----------------------------------------------------------------------------
(* matchesHotkeys (matchesHotkeys.ts).                                      *)

(* isEqualWith of es-toolkit called with a comparator that always returns  *)
(* a boolean: the comparator's verdict on the two values is the result.    *)
isEqualWith(a, b, comparator) == compare(comparator, a, b)

(* The destructuring default of the comparator option.                      *)
optComparator(options) ==
  IF "comparator" \in options.given THEN options.comparator ELSE DEFAULT_COMPARATOR

(* The inner some: over the variants that one hotkey parses to.             *)
RECURSIVE someVariant(_, _, _, _)
someVariant(variants, n, event, comparator) ==
  IF n > Len(variants) THEN FALSE
  ELSE IF isEqualWith(variants[n], event, comparator) THEN TRUE
  ELSE someVariant(variants, n + 1, event, comparator)

(* someHotkey that gives up at a hotkey that parses to no variant.          *)
RECURSIVE someHotkeyStoppingAtInvalid(_, _, _, _, _)
someHotkeyStoppingAtInvalid(hotkeys, i, event, comparator, ua) ==
  IF i > Len(hotkeys) THEN FALSE
  ELSE LET variants == parseCombination(hotkeys[i].combination, hotkeys[i].options, ua)
       IN  IF variants = << >> THEN FALSE
           ELSE IF someVariant(variants, 1, event, comparator) THEN TRUE
           ELSE someHotkeyStoppingAtInvalid(hotkeys, i + 1, event, comparator, ua)

(* The outer some: over the hotkeys, each parsed with its own options.      *)
RECURSIVE someHotkey(_, _, _, _, _)
someHotkey(hotkeys, i, event, comparator, ua) ==
  IF i > Len(hotkeys) THEN FALSE
  ELSE IF someVariant(parseCombination(hotkeys[i].combination, hotkeys[i].options, ua),
                      1, event, comparator) THEN TRUE
  ELSE someHotkey(hotkeys, i + 1, event, comparator, ua)

matchesHotkeys(hotkeys, event, options, ua) ==
  someHotkey(hotkeys, 1, event, optComparator(options), ua)

-----------------------------------------------------------------------------
(* Inputs.  A behaviour starts from one call drawn from the sets below     *)
(* and one user agent; the call may be made any number of times and the    *)
(* user agent may change in between.                                        *)

MaxParts == 3

MacUserAgent == "Mozilla/5.0 (Macintosh; Intel Mac OS X 14_0)"

WindowsUserAgent == "Mozilla/5.0 (Windows NT 10.0; Win64; x64)"

UserAgents == { MacUserAgent, WindowsUserAgent }

AllCodes == { KEY_DEFINITIONS[i].code : i \in 1..Len(KEY_DEFINITIONS) }

AllKeys == { KEY_DEFINITIONS[i].key : i \in 1..Len(KEY_DEFINITIONS) }

AllShiftedKeys == { SHIFT_KEY_MAPPINGS[i].shiftedKey : i \in 1..Len(SHIFT_KEY_MAPPINGS) }

AllKeyAliases == UNION { Range(KEY_ALIASES[i].aliases) : i \in 1..Len(KEY_ALIASES) }

AllCodeAliases == UNION { Range(CODE_ALIASES[i].aliases) : i \in 1..Len(CODE_ALIASES) }

KnownTokens == AllCodes \cup AllKeys \cup AllShiftedKeys \cup AllKeyAliases \cup AllCodeAliases

ResolveInputs ==
  KnownTokens
  \cup { toLowerCase(t) : t \in KnownTokens }
  \cup { toUpperCase(t) : t \in KnownTokens }
  \cup { "", "mod", "Mod", "MOD", "plus", "Plus", "zzz-unknown-token", "UnknownKey", "FooBar" }

LeadingTokens ==
  { "ctrl", "control", "ControlLeft", "lshift", "mod", "a", "" }

MainTokens ==
  { "a", "b", "ctrl", "shift", "rshift", "ShiftLeft", "mod", "+", "plus", "FooBar", "" }

RECURSIVE LeadingLists(_)
LeadingLists(n) ==
  IF n = 0 THEN { << >> }
  ELSE LeadingLists(n - 1)
       \cup { Append(l, t) : l \in { m \in LeadingLists(n - 1) : Len(m) = n - 1 },
                             t \in LeadingTokens }

TokenLists ==
  { << >> } \cup { Append(l, t) : l \in LeadingLists(MaxParts - 1), t \in MainTokens }

RECURSIVE join(_, _)
join(tokens, sep) ==
  IF tokens = << >> THEN ""
  ELSE IF Len(tokens) = 1 THEN tokens[1]
  ELSE tokens[1] \o sep \o join(Tail(tokens), sep)

NoOptions ==
  [given |-> {}, splitBy |-> "+", trim |-> TRUE, allowCodeAsModifier |-> TRUE,
   inferShift |-> FALSE]

OptionChoices ==
  { NoOptions,
    [NoOptions EXCEPT !.given = { "allowCodeAsModifier" }, !.allowCodeAsModifier = FALSE],
    [NoOptions EXCEPT !.given = { "inferShift" }, !.inferShift = TRUE],
    [NoOptions EXCEPT !.given = { "splitBy", "trim" }, !.splitBy = "-", !.trim = FALSE] }

ArrayCombination(tokens) == [isArray |-> TRUE, text |-> "", tokens |-> tokens]

StringCombination(text) == [isArray |-> FALSE, text |-> text, tokens |-> << >>]

ResolveCalls == { [fn |-> "resolveKey", input |-> t] : t \in ResolveInputs }

ParseCalls ==
  { [fn |-> "parseCombination", combination |-> ArrayCombination(l), options |-> o] :
      l \in TokenLists, o \in OptionChoices }
  \cup
  { [fn |-> "parseCombination",
     combination |-> StringCombination(join(l, optSplitBy(o))), options |-> o] :
      l \in TokenLists, o \in OptionChoices }

-----------------------------------------------------------------------------
(* The state machine.                                                       *)

InitWith(calls) ==
  /\ userAgent \in UserAgents
  /\ call \in calls
  /\ returned = FALSE
  /\ calledOn = ""
  /\ result = << >>

SetUserAgent(ua) ==
  /\ userAgent' = ua
  /\ UNCHANGED << call, returned, calledOn, result >>

(* ResolveKey with the platform remembered from the first call.            *)
ResolveKeyOnRememberedPlatform ==
  /\ call.fn = "resolveKey"
  /\ result' = resolveKey(call.input, IF calledOn = "" THEN userAgent ELSE calledOn)
  /\ returned' = TRUE
  /\ calledOn' = IF calledOn = "" THEN userAgent ELSE calledOn
  /\ UNCHANGED << userAgent, call >>

ResolveKey ==
  /\ call.fn = "resolveKey"
  /\ result' = resolveKey(call.input, userAgent)
  /\ returned' = TRUE
  /\ calledOn' = userAgent
  /\ UNCHANGED << userAgent, call >>

(* ParseCombination that normalizes the caller's array in place.           *)
ParseCombinationInPlace ==
  /\ call.fn = "parseCombination"
  /\ result' = parseCombination(call.combination, call.options, userAgent)
  /\ returned' = TRUE
  /\ calledOn' = userAgent
  /\ call' = IF call.combination.isArray
              THEN [call EXCEPT !.combination.tokens =
                                  normalizedParts(call.combination, call.options)]
              ELSE call
  /\ UNCHANGED userAgent

ParseCombination ==
  /\ call.fn = "parseCombination"
  /\ result' = parseCombination(call.combination, call.options, userAgent)
  /\ returned' = TRUE
  /\ calledOn' = userAgent
  /\ UNCHANGED << userAgent, call >>

(* The library restricted to calls of one function.                         *)
InitResolveKey == InitWith(ResolveCalls)

NextResolveKey ==
  \/ \E ua \in UserAgents : SetUserAgent(ua)
  \/ ResolveKey

SpecResolveKey == InitResolveKey /\ [][NextResolveKey]_vars

InitParseCombination == InitWith(ParseCalls)

NextParseCombination ==
  \/ \E ua \in UserAgents : SetUserAgent(ua)
  \/ ParseCombination

SpecParseCombination == InitParseCombination /\ [][NextParseCombination]_vars

-----------------------------------------------------------------------------
(* Calls of parseCombination that exercise the trim, splitBy and           *)
(* inferShift options: tokens with surrounding white space, the Space      *)
(* key, and characters typed with Shift.                                    *)

LeadingOptionTokens == { "ctrl", " ctrl ", "shift" }

MainOptionTokens == { "a", " a ", " ", "!", "@", "+", "=", "plus", "" }

RECURSIVE LeadingOptionLists(_)
LeadingOptionLists(n) ==
  IF n = 0 THEN { << >> }
  ELSE LeadingOptionLists(n - 1)
       \cup { Append(l, t) : l \in { m \in LeadingOptionLists(n - 1) : Len(m) = n - 1 },
                             t \in LeadingOptionTokens }

OptionTokenLists ==
  { << >> }
  \cup { Append(l, t) : l \in LeadingOptionLists(MaxParts - 1), t \in MainOptionTokens }

TrimChoices ==
  { NoOptions,
    [NoOptions EXCEPT !.given = { "trim" }, !.trim = TRUE],
    [NoOptions EXCEPT !.given = { "trim" }, !.trim = FALSE] }

TrimAndShiftChoices ==
  TrimChoices
  \cup { [o EXCEPT !.given = @ \cup { "inferShift" }, !.inferShift = TRUE] : o \in TrimChoices }

ParseOptionChoices ==
  TrimAndShiftChoices
  \cup { [o EXCEPT !.given = @ \cup { "splitBy" }, !.splitBy = "-"] : o \in TrimAndShiftChoices }

ParseOptionCalls ==
  { [fn |-> "parseCombination", combination |-> ArrayCombination(l), options |-> o] :
      l \in OptionTokenLists, o \in ParseOptionChoices }
  \cup
  { [fn |-> "parseCombination",
     combination |-> StringCombination(join(l, optSplitBy(o))), options |-> o] :
      l \in OptionTokenLists, o \in ParseOptionChoices }

InitParseOptions == InitWith(ParseOptionCalls)

SpecParseOptions == InitParseOptions /\ [][NextParseCombination]_vars

-----------------------------------------------------------------------------
(* Calls of matchesHotkeys: a list of hotkeys, a keyboard event and an     *)
(* optional comparator.                                                     *)

MaxHotkeys == 2

Hotkey(combination, options) == [combination |-> combination, options |-> options]

HotkeyChoices ==
  { Hotkey(StringCombination("ctrl+a"), NoOptions),
    Hotkey(StringCombination("ctrl+b"), NoOptions),
    Hotkey(StringCombination("ControlLeft+a"),
           [NoOptions EXCEPT !.given = { "allowCodeAsModifier" },
                             !.allowCodeAsModifier = FALSE]),
    Hotkey(StringCombination("mod+s"), NoOptions),
    Hotkey(StringCombination("ctrl+plus"), NoOptions),
    Hotkey(ArrayCombination(<< "ctrl", "+" >>), NoOptions),
    Hotkey(ArrayCombination(<< "ctrl", "+" >>),
           [NoOptions EXCEPT !.given = { "inferShift" }, !.inferShift = TRUE]) }

RECURSIVE HotkeyLists(_)
HotkeyLists(n) ==
  IF n = 0 THEN { << >> }
  ELSE HotkeyLists(n - 1)
       \cup { Append(l, h) : l \in { m \in HotkeyLists(n - 1) : Len(m) = n - 1 },
                             h \in HotkeyChoices }

(* A KeyboardEvent: the eight fields the library reads.                     *)
evt(code, key, keyCode, which, held) ==
  [code |-> code, key |-> key, keyCode |-> keyCode, which |-> which,
   metaKey |-> "metaKey" \in held, ctrlKey |-> "ctrlKey" \in held,
   shiftKey |-> "shiftKey" \in held, altKey |-> "altKey" \in held]

CtrlA == evt("KeyA", "a", 65, 65, { "ctrlKey" })

CtrlShiftA == evt("KeyA", "a", 65, 65, { "ctrlKey", "shiftKey" })

PlainA == evt("KeyA", "a", 65, 65, {})

CtrlWhich65 == evt("", "", 0, 65, { "ctrlKey" })

MetaS == evt("KeyS", "s", 83, 83, { "metaKey" })

CtrlS == evt("KeyS", "s", 83, 83, { "ctrlKey" })

CtrlNumpadAdd == evt("NumpadAdd", "+", 107, 107, { "ctrlKey" })

CtrlShiftEqual == evt("Equal", "+", 187, 187, { "ctrlKey", "shiftKey" })

CtrlEqual == evt("Equal", "=", 187, 187, { "ctrlKey" })

Events ==
  { CtrlA, CtrlShiftA, PlainA, CtrlWhich65, MetaS, CtrlS,
    CtrlNumpadAdd, CtrlShiftEqual, CtrlEqual }

IGNORE_SHIFT_COMPARATOR ==
  or(<< and(<< eq(<< "key", "altKey", "ctrlKey", "metaKey" >>) >>),
        and(<< eq(<< "code", "altKey", "ctrlKey", "metaKey" >>) >>),
        and(<< eq(<< "which", "altKey", "ctrlKey", "metaKey" >>) >>),
        and(<< eq(<< "keyCode", "altKey", "ctrlKey", "metaKey" >>) >>) >>)

NoMatchOptions == [given |-> {}, comparator |-> DEFAULT_COMPARATOR]

MatchOptionChoices ==
  { NoMatchOptions,
    [given |-> { "comparator" }, comparator |-> COMPARE_BY_CODE],
    [given |-> { "comparator" }, comparator |-> IGNORE_SHIFT_COMPARATOR] }

MatchCalls ==
  { [fn |-> "matchesHotkeys", hotkeys |-> l, event |-> e, options |-> o] :
      l \in HotkeyLists(MaxHotkeys), e \in Events, o \in MatchOptionChoices }

MatchesHotkeys ==
  /\ call.fn = "matchesHotkeys"
  /\ result' = matchesHotkeys(call.hotkeys, call.event, call.options, userAgent)
  /\ returned' = TRUE
  /\ calledOn' = userAgent
  /\ UNCHANGED << userAgent, call >>

InitMatchesHotkeys == InitWith(MatchCalls)

NextMatchesHotkeys ==
  \/ \E ua \in UserAgents : SetUserAgent(ua)
  \/ MatchesHotkeys

SpecMatchesHotkeys == InitMatchesHotkeys /\ [][NextMatchesHotkeys]_vars

-----------------------------------------------------------------------------
(* Calls of a comparator built with eq, and, or on a parsed variant and a  *)
(* keyboard event.                                                          *)

MaxConds == 3

CondChoices ==
  { eq(<< "key" >>), eq(<< "code" >>), eq(<< "keyCode", "which" >>),
    MODIFIERS_COMPARATOR, COMPARE_BY_CODE, or(<< >>) }

RECURSIVE CondLists(_)
CondLists(n) ==
  IF n = 0 THEN { << >> }
  ELSE CondLists(n - 1)
       \cup { Append(l, c) : l \in { m \in CondLists(n - 1) : Len(m) = n - 1 },
                             c \in CondChoices }

BuiltComparators ==
  { and(l) : l \in CondLists(MaxConds) } \cup { or(l) : l \in CondLists(MaxConds) }

Variants ==
  { [metaKey |-> FALSE, ctrlKey |-> TRUE, shiftKey |-> FALSE, altKey |-> FALSE,
     key |-> "a", code |-> "KeyA", keyCode |-> 65, which |-> 65],
    [metaKey |-> FALSE, ctrlKey |-> TRUE, shiftKey |-> FALSE, altKey |-> FALSE,
     key |-> "+", code |-> "Equal", keyCode |-> 187, which |-> 187] }

ComparedEvents == { CtrlA, CtrlShiftA, CtrlWhich65, CtrlEqual, CtrlShiftEqual }

CompareCalls ==
  { [fn |-> "comparator", comparator |-> c, a |-> a, b |-> b] :
      c \in BuiltComparators, a \in Variants, b \in ComparedEvents }

Compare ==
  /\ call.fn = "comparator"
  /\ result' = compare(call.comparator, call.a, call.b)
  /\ returned' = TRUE
  /\ calledOn' = userAgent
  /\ UNCHANGED << userAgent, call >>

InitComparators == InitWith(CompareCalls)

NextComparators == Compare

SpecComparators == InitComparators /\ [][NextComparators]_vars

-----------------------------------------------------------------------------
(* Sequences of calls: the caller makes one call after another, of any of  *)
(* the three functions, and the user agent may change in between.          *)

SequenceResolveInputs == { "mod", "Mod", "MOD", "meta", "ctrl", "a" }

SequenceCombinations ==
  { StringCombination("mod+a"), StringCombination("mod+shift+a"),
    StringCombination("shift+mod"), StringCombination("mod"),
    StringCombination("ctrl+a"),
    ArrayCombination(<< "mod", "a" >>), ArrayCombination(<< "Mod", "S" >>) }

SequenceHotkeyLists ==
  { << Hotkey(StringCombination("mod+s"), NoOptions) >>,
    << Hotkey(StringCombination("ctrl+a"), NoOptions),
       Hotkey(StringCombination("mod+s"), NoOptions) >>,
    << Hotkey(ArrayCombination(<< "Mod", "S" >>), NoOptions) >> }

SequenceCalls ==
  { [fn |-> "resolveKey", input |-> t] : t \in SequenceResolveInputs }
  \cup
  { [fn |-> "parseCombination", combination |-> c, options |-> NoOptions] :
      c \in SequenceCombinations }
  \cup
  { [fn |-> "matchesHotkeys", hotkeys |-> l, event |-> e, options |-> NoMatchOptions] :
      l \in SequenceHotkeyLists, e \in { MetaS, CtrlS, CtrlA } }

(* The caller turns to another call; what the last call returned stays     *)
(* where it is until the new call returns.                                  *)
NewCall(c) ==
  /\ c # call
  /\ call' = c
  /\ returned' = FALSE
  /\ UNCHANGED << userAgent, calledOn, result >>

InitSequences == InitWith(SequenceCalls)

NextSequences ==
  \/ \E ua \in UserAgents : SetUserAgent(ua)
  \/ \E c \in SequenceCalls : NewCall(c)
  \/ ResolveKey
  \/ ParseCombination
  \/ MatchesHotkeys

SpecSequences == InitSequences /\ [][NextSequences]_vars

-----------------------------------------------------------------------------
(* Calls of parseCombination that go through the names of the modifiers,   *)
(* in the letter case of the registry and in capitals.                      *)

ModifierKeyNames ==
  { MODIFIER_KEY_DEFINITIONS[i].key : i \in 1..Len(MODIFIER_KEY_DEFINITIONS) }

ModifierCodeNameTokens ==
  { KEY_DEFINITIONS[i].code :
      i \in { n \in 1..Len(KEY_DEFINITIONS) : KEY_DEFINITIONS[n].key \in ModifierKeyNames } }

ModifierNameTokens ==
  ModifierKeyNames
  \cup UNION { Range(KEY_ALIASES[i].aliases) :
                 i \in { n \in 1..Len(KEY_ALIASES) : KEY_ALIASES[n].key \in ModifierKeyNames } }
  \cup ModifierCodeNameTokens
  \cup UNION { Range(CODE_ALIASES[i].aliases) :
                 i \in { n \in 1..Len(CODE_ALIASES) :
                           CODE_ALIASES[n].code \in ModifierCodeNameTokens } }

FirstNameTokens ==
  ModifierNameTokens \cup { toUpperCase(t) : t \in ModifierNameTokens } \cup { "mod", "Mod" }

SecondNameTokens == { "ctrl", "meta", "cmd" }

MainNameTokens == { "a", "A", "Enter", "FooBar" }

NameTokenLists ==
  { << m >> : m \in MainNameTokens }
  \cup { << f >> : f \in FirstNameTokens }
  \cup { << f, m >> : f \in FirstNameTokens, m \in MainNameTokens }
  \cup { << f, s, m >> : f \in FirstNameTokens, s \in SecondNameTokens, m \in MainNameTokens }

ParseNameCalls ==
  { [fn |-> "parseCombination", combination |-> ArrayCombination(l), options |-> NoOptions] :
      l \in NameTokenLists }
  \cup
  { [fn |-> "parseCombination", combination |-> StringCombination(join(l, "+")),
     options |-> NoOptions] : l \in NameTokenLists }

InitParseNames == InitWith(ParseNameCalls)

SpecParseNames == InitParseNames /\ [][NextParseCombination]_vars

-----------------------------------------------------------------------------
(* Calls of matchesHotkeys with one side-specific modifier as the hotkey   *)
(* and the event of a modifier key going down or up.                        *)

SideCodes ==
  { "ShiftLeft", "ShiftRight", "ControlLeft", "ControlRight",
    "AltLeft", "AltRight", "MetaLeft", "MetaRight" }

(* The event of the modifier key with the given code: down with its own    *)
(* flag set, up with no flag set.                                           *)
ModifierKeyEvent(code, down) ==
  evt(code, definitionOf(code).key, definitionOf(code).keyCode, definitionOf(code).keyCode,
      IF down THEN { modifierPropOf(definitionOf(code).key) } ELSE {})

SideEvents == { ModifierKeyEvent(c, down) : c \in SideCodes, down \in BOOLEAN }

SideOptionChoices ==
  { NoMatchOptions } \cup
  { [given |-> { "comparator" }, comparator |-> c] :
      c \in { COMPARE_BY_KEY, COMPARE_BY_CODE, COMPARE_BY_WHICH, COMPARE_BY_KEY_CODE } }

SideCalls ==
  { [fn |-> "matchesHotkeys", hotkeys |-> << Hotkey(StringCombination(c), NoOptions) >>,
     event |-> e, options |-> o] :
      c \in SideCodes, e \in SideEvents, o \in SideOptionChoices }

InitMatchesSides == InitWith(SideCalls)

SpecMatchesSides == InitMatchesSides /\ [][NextMatchesHotkeys]_vars

-----------------------------------------------------------------------------
(* Every call of the library.                                               *)

Init == InitWith(ResolveCalls \cup ParseCalls \cup ParseOptionCalls \cup MatchCalls
                 \cup CompareCalls)

Next ==
  \/ \E ua \in UserAgents : SetUserAgent(ua)
  \/ ResolveKey
  \/ ParseCombination
  \/ MatchesHotkeys
  \/ Compare

Spec == Init /\ [][Next]_vars

TypeOK ==
  /\ userAgent \in UserAgents
  /\ returned \in BOOLEAN
  /\ call.fn \in { "resolveKey", "parseCombination", "matchesHotkeys", "comparator" }

-----------------------------------------------------------------------------
(* Properties of resolveKey.                                                *)

Resolved == returned /\ call.fn = "resolveKey"

LowerCaseCodes == { toLowerCase(c) : c \in AllCodes }

LowerCaseCodeAliases == { toLowerCase(a) : a \in AllCodeAliases }

(* The token as the matching stages see it: lowercased, "mod" replaced by  *)
(* the modifier of the platform the call ran on.                            *)
stageToken == preMap(toLowerCase(call.input), calledOn)

\* C1: a token that equals a physical code of the registry, whatever its
\* letter case, resolves to exactly one record, whose code is that code in
\* its canonical casing; it is never expanded, even when the token is also
\* a logical key value that several codes share.
C1_CodeTokenResolvesToThatCode ==
  Resolved =>
    LET lowered == toLowerCase(call.input)
    IN  \A c \in AllCodes :
          lowered = toLowerCase(c) =>
            /\ Len(result) = 1
            /\ result[1].code = c

C1_Witness ==
  /\ Resolved
  /\ call.input = "enter"
  /\ Cardinality({ i \in 1..Len(KEY_DEFINITIONS) : KEY_DEFINITIONS[i].key = "Enter" }) > 1
  /\ Len(result) = 1
  /\ result[1].code = "Enter"

BareModifierNames ==
  { "ctrl", "shift", "alt", "meta", "control", "option", "cmd", "command", "win", "windows" }

BareMetaNames == { "meta", "cmd", "command", "win", "windows" }

TwoSides(name) ==
  /\ Len(result) = 2
  /\ result[1].code = name \o "Left"
  /\ result[2].code = name \o "Right"
  /\ result[1].code # result[2].code
  /\ result[1].key = name
  /\ result[2].key = name

\* C2 as stated: every bare generic modifier name resolves to exactly two
\* records, Left then Right, with distinct codes, the same logical key and
\* the same numeric code (keyCode and which).
C2_BothSidesShareNumericCode ==
  (Resolved /\ toLowerCase(call.input) \in BareModifierNames) =>
    /\ \E name \in { "Control", "Shift", "Alt", "Meta" } : TwoSides(name)
    /\ result[1].keyCode = result[2].keyCode
    /\ result[1].which = result[2].which

\* C2 amended: every bare generic modifier name resolves to exactly two
\* records, Left then Right, with distinct codes and the same logical key;
\* the two numeric codes are equal for ctrl, shift and alt (and control,
\* option), and are 91 for MetaLeft and 93 for MetaRight for meta and its
\* aliases.
C2_BothSidesShareKey ==
  (Resolved /\ toLowerCase(call.input) \in BareModifierNames) =>
    /\ \E name \in { "Control", "Shift", "Alt", "Meta" } : TwoSides(name)
    /\ \A n \in 1..2 : result[n].which = result[n].keyCode
    /\ toLowerCase(call.input) \notin BareMetaNames => result[1].keyCode = result[2].keyCode
    /\ toLowerCase(call.input) \in BareMetaNames =>
         result[1].keyCode = 91 /\ result[2].keyCode = 93

C2_Witness ==
  /\ Resolved
  /\ call.input = "cmd"
  /\ TwoSides("Meta")
  /\ result[1].keyCode # result[2].keyCode

(* The registry entries that produce a character, by position.              *)
directIndices(wanted) ==
  { i \in 1..Len(KEY_DEFINITIONS) : toLowerCase(KEY_DEFINITIONS[i].key) = wanted }

shiftedIndices(wanted) ==
  { i \in 1..Len(SHIFT_KEY_MAPPINGS) : toLowerCase(SHIFT_KEY_MAPPINGS[i].shiftedKey) = wanted }

rankIn(S, i) == Cardinality({ j \in S : j < i }) + 1

ResolvedByKeyValue ==
  /\ Resolved
  /\ call.input # ""
  /\ stageToken \notin LowerCaseCodes
  /\ stageToken \notin LowerCaseCodeAliases
  /\ directIndices(stageToken) \cup shiftedIndices(stageToken) # {}

\* C3: a token resolved by logical key value gives every source of that
\* character and nothing else: the key definitions whose key equals the
\* token (as the stage sees it), in declaration order, then the shift
\* mappings whose shifted character equals it, each with the base key's
\* code and numeric code; so "0" gives Digit0 then Numpad0 and "+" gives
\* NumpadAdd then Equal, both with key "+".
C3_KeyValueGivesEverySourceInOrder ==
  ResolvedByKeyValue =>
    LET D == directIndices(stageToken)
        S == shiftedIndices(stageToken)
    IN  /\ Len(result) = Cardinality(D) + Cardinality(S)
        /\ \A i \in D :
             result[rankIn(D, i)] =
               [key |-> KEY_DEFINITIONS[i].key, code |-> KEY_DEFINITIONS[i].code,
                keyCode |-> KEY_DEFINITIONS[i].keyCode, which |-> KEY_DEFINITIONS[i].keyCode]
        /\ \A i \in S :
             \E d \in 1..Len(KEY_DEFINITIONS) :
               /\ KEY_DEFINITIONS[d].code = SHIFT_KEY_MAPPINGS[i].code
               /\ result[Cardinality(D) + rankIn(S, i)] =
                    [key |-> SHIFT_KEY_MAPPINGS[i].shiftedKey,
                     code |-> SHIFT_KEY_MAPPINGS[i].code,
                     keyCode |-> KEY_DEFINITIONS[d].keyCode,
                     which |-> KEY_DEFINITIONS[d].keyCode]
        /\ call.input = "0" => [n \in 1..Len(result) |-> result[n].code] = << "Digit0", "Numpad0" >>
        /\ call.input = "+" =>
             /\ [n \in 1..Len(result) |-> result[n].code] = << "NumpadAdd", "Equal" >>
             /\ \A n \in 1..Len(result) : result[n].key = "+"

C3_Witness ==
  /\ ResolvedByKeyValue
  /\ call.input = "+"
  /\ Len(result) = 2
  /\ result[1].code = "NumpadAdd"
  /\ result[2] = [key |-> "+", code |-> "Equal", keyCode |-> 187, which |-> 187]

MatchesNothing ==
  /\ stageToken \notin LowerCaseCodes
  /\ stageToken \notin LowerCaseCodeAliases
  /\ directIndices(stageToken) \cup shiftedIndices(stageToken) = {}
  /\ stageToken \notin { toLowerCase(a) : a \in AllKeyAliases }

\* C4: resolveKey("") is the empty list, and a non-empty token that no
\* stage matches (no code, code alias, key value or key alias) gives exactly
\* one fallback record whose key and code are the input in its original
\* casing and whose keyCode and which are -1.
C4_EmptyAndFallback ==
  /\ (Resolved /\ call.input = "") => result = << >>
  /\ (Resolved /\ call.input # "" /\ MatchesNothing) =>
       result = << [key |-> call.input, code |-> call.input, keyCode |-> -1, which |-> -1] >>

C4_Witness ==
  /\ Resolved
  /\ call.input = "FooBar"
  /\ MatchesNothing
  /\ result = << [key |-> "FooBar", code |-> "FooBar", keyCode |-> -1, which |-> -1] >>

\* C5: the key alias "plus" stands for the logical key "+":
\* resolveKey("plus") gives the two records of resolveKey("+"), NumpadAdd
\* (keyCode 107) then the Shift-derived Equal (keyCode 187), both with
\* key "+".
C5_PlusIsAliasOfPlusSign ==
  (Resolved /\ toLowerCase(call.input) = "plus") =>
    /\ result = resolveKey("+", calledOn)
    /\ result = << [key |-> "+", code |-> "NumpadAdd", keyCode |-> 107, which |-> 107],
                   [key |-> "+", code |-> "Equal", keyCode |-> 187, which |-> 187] >>


-----------------------------------------------------------------------------
(* Properties of parseCombination.                                          *)

Parsed == returned /\ call.fn = "parseCombination"

Flags == { "metaKey", "ctrlKey", "shiftKey", "altKey" }

(* Every name of each modifier: the key, its key aliases, the codes of     *)
(* both sides and their code aliases, lowercased.                           *)
ModifierNamesOf ==
  [metaKey |-> { "meta", "win", "windows", "cmd", "command", "metaleft", "metaright",
                 "leftmeta", "lmeta", "leftcmd", "lcmd",
                 "rightmeta", "rmeta", "rightcmd", "rcmd" },
   ctrlKey |-> { "control", "ctrl", "controlleft", "controlright",
                 "leftctrl", "lctrl", "leftcontrol", "rightctrl", "rctrl", "rightcontrol" },
   shiftKey |-> { "shift", "shiftleft", "shiftright",
                  "leftshift", "lshift", "rightshift", "rshift" },
   altKey |-> { "alt", "option", "altleft", "altright",
                "leftalt", "lalt", "leftoption", "rightalt", "ralt", "rightoption" }]

(* The physical code names and code aliases among them.                     *)
ModifierCodeNames ==
  { "metaleft", "metaright", "leftmeta", "lmeta", "leftcmd", "lcmd",
    "rightmeta", "rmeta", "rightcmd", "rcmd",
    "controlleft", "controlright",
    "leftctrl", "lctrl", "leftcontrol", "rightctrl", "rctrl", "rightcontrol",
    "shiftleft", "shiftright", "leftshift", "lshift", "rightshift", "rshift",
    "altleft", "altright", "leftalt", "lalt", "leftoption", "rightalt", "ralt", "rightoption" }

(* The tokens of the call after splitting, trimming and lowercasing, and   *)
(* the flags a token names on the platform the call ran on.                 *)
tokensOfCall == normalizedParts(call.combination, call.options)

platformName(token) ==
  IF token = "mod" THEN (IF includes(calledOn, "Mac") THEN "meta" ELSE "control") ELSE token

flagsNamedBy(token) == { f \in Flags : platformName(token) \in ModifierNamesOf[f] }

flagsNamedByAll(tokens) == UNION { flagsNamedBy(tokens[i]) : i \in 1..Len(tokens) }

ValidCombination(tokens) ==
  /\ Len(tokens) > 0
  /\ \A i \in 1..Len(tokens) : tokens[i] # ""
  /\ \A i \in 1..(Len(tokens) - 1) : flagsNamedBy(tokens[i]) # {}
  /\ \A i \in 1..(Len(tokens) - 1) :
       ~optAllowCodeAsModifier(call.options) => platformName(tokens[i]) \notin ModifierCodeNames
  /\ \A i, j \in 1..Len(tokens) : i < j => flagsNamedBy(tokens[i]) \cap flagsNamedBy(tokens[j]) = {}

\* C6: a valid combination parses to exactly one variant per record that
\* resolveKey gives for its last token, in the same order; each variant has
\* that record's key, code, keyCode and which, and (inferShift not enabled)
\* its four modifier flags are true exactly for the flags that the tokens of
\* the combination name.  "ctrl+a" parses to the single KeyA variant with
\* only ctrlKey true.
C6_OneVariantPerResolvedKey ==
  (Parsed /\ ValidCombination(tokensOfCall) /\ ~optInferShift(call.options)) =>
    LET tokens == tokensOfCall
        keys == resolveKey(tokens[Len(tokens)], calledOn)
        named == flagsNamedByAll(tokens)
    IN  /\ Len(keys) > 0
        /\ Len(result) = Len(keys)
        /\ \A n \in 1..Len(result) :
             result[n] = [key |-> keys[n].key, code |-> keys[n].code,
                          keyCode |-> keys[n].keyCode, which |-> keys[n].which,
                          metaKey |-> "metaKey" \in named, ctrlKey |-> "ctrlKey" \in named,
                          shiftKey |-> "shiftKey" \in named, altKey |-> "altKey" \in named]
        /\ (~call.combination.isArray /\ call.combination.text = "ctrl+a"
              /\ optSplitBy(call.options) = "+") =>
             result = << [code |-> "KeyA", key |-> "a", keyCode |-> 65, which |-> 65,
                          ctrlKey |-> TRUE, metaKey |-> FALSE,
                          shiftKey |-> FALSE, altKey |-> FALSE] >>

C6_Witness ==
  /\ Parsed
  /\ call.options = NoOptions
  /\ ~call.combination.isArray
  /\ call.combination.text = "ctrl+a"
  /\ ValidCombination(tokensOfCall)
  /\ Len(result) = 1
  /\ result[1].code = "KeyA"
  /\ result[1].ctrlKey

\* C7: the result is the empty list whenever the token list is empty, some
\* token is empty after normalization, or some token before the last one is
\* not a modifier name.
C7_EmptyOrMisplacedTokenIsInvalid ==
  Parsed =>
    LET tokens == tokensOfCall
    IN  (\/ Len(tokens) = 0
         \/ \E i \in 1..Len(tokens) : tokens[i] = ""
         \/ \E i \in 1..(Len(tokens) - 1) : flagsNamedBy(tokens[i]) = {})
        => result = << >>

C7_Witness ==
  /\ Parsed
  /\ ~call.combination.isArray
  /\ call.combination.text = "a+ctrl+b"
  /\ tokensOfCall = << "a", "ctrl", "b" >>
  /\ result = << >>

\* C8: the result is the empty list whenever two tokens of the combination
\* map to the same modifier flag, whatever names are used and whether the
\* second one is a leading modifier or the final main key.
C8_DuplicateModifierIsInvalid ==
  Parsed =>
    LET tokens == tokensOfCall
    IN  (\E i, j \in 1..Len(tokens) :
           i < j /\ flagsNamedBy(tokens[i]) \cap flagsNamedBy(tokens[j]) # {})
        => result = << >>

C8_Witness ==
  /\ Parsed
  /\ tokensOfCall = << "lshift", "rshift" >>
  /\ flagsNamedBy("lshift") = { "shiftKey" }
  /\ flagsNamedBy("rshift") = { "shiftKey" }
  /\ resolveKey("lshift", calledOn) # resolveKey("rshift", calledOn)
  /\ result = << >>

SideCodesOf ==
  [metaKey |-> << "MetaLeft", "MetaRight" >>, ctrlKey |-> << "ControlLeft", "ControlRight" >>,
   shiftKey |-> << "ShiftLeft", "ShiftRight" >>, altKey |-> << "AltLeft", "AltRight" >>]

\* C9: a modifier token in the final position sets its own flag.  In every
\* valid combination whose last token names a modifier, each variant has
\* that flag and the flags of the preceding tokens true; a single bare
\* generic modifier gives one variant per side, Left then Right, with only
\* its own flag true; a single physical-code modifier gives one variant
\* with its flag true.
C9_FinalModifierSetsItsOwnFlag ==
  (Parsed /\ ValidCombination(tokensOfCall)) =>
    LET tokens == tokensOfCall
        last == tokens[Len(tokens)]
    IN  \A f \in flagsNamedBy(last) :
          /\ Len(result) > 0
          /\ \A n \in 1..Len(result) :
               /\ result[n][f]
               /\ \A i \in 1..(Len(tokens) - 1) : \A g \in flagsNamedBy(tokens[i]) : result[n][g]
          /\ (Len(tokens) = 1 /\ platformName(last) \in BareModifierNames) =>
               /\ [n \in 1..Len(result) |-> result[n].code] = SideCodesOf[f]
               /\ \A n \in 1..Len(result) : \A g \in Flags \ { f } : ~result[n][g]
          /\ (Len(tokens) = 1 /\ last \in { toLowerCase(c) : c \in AllCodes }) =>
               /\ Len(result) = 1
               /\ toLowerCase(result[1].code) = last

C9_Witness ==
  /\ Parsed
  /\ tokensOfCall = << "ctrl", "shift" >>
  /\ Len(result) = 2
  /\ \A n \in 1..2 : result[n].ctrlKey /\ result[n].shiftKey /\ result[n].key = "Shift"

(* The logical modifier name that a code name or code alias stands for.    *)
logicalNameOf(token) ==
  IF token \in ModifierCodeNames
    THEN (CASE token \in ModifierNamesOf.metaKey -> "meta"
            [] token \in ModifierNamesOf.ctrlKey -> "control"
            [] token \in ModifierNamesOf.shiftKey -> "shift"
            [] token \in ModifierNamesOf.altKey -> "alt")
    ELSE token

withLogicalModifiers(tokens) ==
  [i \in 1..Len(tokens) |-> IF i < Len(tokens) THEN logicalNameOf(tokens[i]) ELSE tokens[i]]

optionsWith(options, allow) ==
  [options EXCEPT !.given = (options.given \cup { "trim", "allowCodeAsModifier" }),
                  !.trim = FALSE, !.allowCodeAsModifier = allow]

\* C10: with allowCodeAsModifier false, a combination with a modifier's
\* code name or code alias before the last token parses to the empty list,
\* a combination whose leading tokens are all logical names parses as with
\* the default, and a code name used as the final main key is still
\* accepted with its flag true; with the default (true), code names and
\* code aliases in modifier positions give the result of the logical name.
C10_CodeAsModifierOption ==
  Parsed =>
    LET tokens == tokensOfCall
        leadingCode == \E i \in 1..(Len(tokens) - 1) : tokens[i] \in ModifierCodeNames
    IN  /\ (~optAllowCodeAsModifier(call.options) /\ leadingCode) => result = << >>
        /\ (~optAllowCodeAsModifier(call.options) /\ ~leadingCode) =>
             result = parseCombination(ArrayCombination(tokens),
                                       optionsWith(call.options, TRUE), calledOn)
        /\ (~optAllowCodeAsModifier(call.options) /\ tokens = << "shiftleft" >>) =>
             /\ Len(result) = 1
             /\ result[1].code = "ShiftLeft"
             /\ result[1].shiftKey
        /\ optAllowCodeAsModifier(call.options) =>
             result = parseCombination(ArrayCombination(withLogicalModifiers(tokens)),
                                       optionsWith(call.options, FALSE), calledOn)

C10_Witness ==
  /\ Parsed
  /\ ~optAllowCodeAsModifier(call.options)
  /\ tokensOfCall = << "controlleft", "a" >>
  /\ result = << >>
  /\ parseCombination(ArrayCombination(tokensOfCall), NoOptions, calledOn) # << >>

-----------------------------------------------------------------------------
(* Properties of the options of parseCombination.                           *)

trimmedTokens(raw, on) == [i \in 1..Len(raw) |-> IF on THEN trim(raw[i]) ELSE raw[i]]

explicitTrim(options, value) ==
  [options EXCEPT !.given = @ \cup { "trim" }, !.trim = value]

isText(text) ==
  /\ ~call.combination.isArray
  /\ call.combination.text = text
  /\ optSplitBy(call.options) = "+"

isArrayOf(tokens) == call.combination.isArray /\ call.combination.tokens = tokens

CtrlSpace ==
  << [key |-> " ", code |-> "Space", keyCode |-> 32, which |-> 32,
      ctrlKey |-> TRUE, metaKey |-> FALSE, shiftKey |-> FALSE, altKey |-> FALSE] >>

\* C11: white space around tokens is trimmed by default for a string
\* combination and kept by default for an array combination, and an explicit
\* trim option decides in both cases: the result is that of the raw tokens,
\* trimmed or not accordingly, parsed as they are.  " ctrl + a " parses like
\* "ctrl+a"; "ctrl+ " is invalid by default and is Ctrl+Space with trim
\* false; ["ctrl", " "] is Ctrl+Space by default and invalid with trim true.
C11_TrimDefaultsAndOverride ==
  Parsed =>
    LET c == call.combination
        o == call.options
        raw == IF c.isArray THEN c.tokens ELSE split(c.text, optSplitBy(o))
        inEffect == IF "trim" \in o.given THEN o.trim ELSE ~c.isArray
    IN  /\ result = parseCombination(ArrayCombination(trimmedTokens(raw, inEffect)),
                                     explicitTrim(o, FALSE), calledOn)
        /\ (isText(" ctrl + a ") /\ "trim" \notin o.given) =>
             /\ result = parseCombination(StringCombination("ctrl+a"), o, calledOn)
             /\ Len(result) = 1
             /\ result[1].code = "KeyA"
        /\ (isText("ctrl+ ") /\ "trim" \notin o.given) => result = << >>
        /\ (isText("ctrl+ ") /\ "trim" \in o.given /\ ~o.trim) => result = CtrlSpace
        /\ (isArrayOf(<< "ctrl", " " >>) /\ "trim" \notin o.given) => result = CtrlSpace
        /\ (isArrayOf(<< "ctrl", " " >>) /\ "trim" \in o.given /\ o.trim) => result = << >>

C11_Witness ==
  /\ Parsed
  /\ isArrayOf(<< "ctrl", " " >>)
  /\ "trim" \notin call.options.given
  /\ result = CtrlSpace
  /\ parseCombination(StringCombination("ctrl+ "), call.options, calledOn) = << >>

\* C12: for a string combination parsed with an explicit trim option,
\* whatever the separator and the other options, the result is the result of
\* parsing the array of its tokens with the same options, the tokens being
\* the pieces between the separators: joined with the separator they give
\* the string back and none of them contains the separator.
C12_StringAndTokenArrayAgree ==
  (Parsed /\ ~call.combination.isArray /\ "trim" \in call.options.given) =>
    LET sep == optSplitBy(call.options)
        tokens == split(call.combination.text, sep)
    IN  /\ join(tokens, sep) = call.combination.text
        /\ \A i \in 1..Len(tokens) : ~includes(tokens[i], sep)
        /\ result = parseCombination(ArrayCombination(tokens), call.options, calledOn)
        /\ isText("ctrl+a") =>
             result = parseCombination(ArrayCombination(<< "ctrl", "a" >>),
                                       call.options, calledOn)

C12_Witness ==
  /\ Parsed
  /\ ~call.combination.isArray
  /\ call.combination.text = "ctrl-shift- a "
  /\ "trim" \in call.options.given
  /\ call.options.trim
  /\ optSplitBy(call.options) = "-"
  /\ Len(result) = 1
  /\ result = parseCombination(ArrayCombination(<< "ctrl", "shift", " a " >>),
                               call.options, calledOn)

ShiftedCharacters == { SHIFT_KEY_MAPPINGS[i].shiftedKey : i \in 1..Len(SHIFT_KEY_MAPPINGS) }

\* C13: when the inferShift option is not given, shiftKey of every variant
\* is true exactly when some token of the combination names the shift
\* modifier; so a character typed with Shift that is written without a shift
\* token ("!", "@", or "+" under another separator) has shiftKey false on
\* every variant, and with a shift token has shiftKey true on every variant.
C13_NoShiftInferenceByDefault ==
  (Parsed /\ "inferShift" \notin call.options.given) =>
    LET tokens == tokensOfCall
    IN  /\ \A n \in 1..Len(result) :
             result[n].shiftKey = ("shiftKey" \in flagsNamedByAll(tokens))
        /\ (\E c \in ShiftedCharacters : tokens = << c >> \/ tokens = << "ctrl", c >>) =>
             /\ Len(result) > 0
             /\ \A n \in 1..Len(result) : ~result[n].shiftKey
        /\ (Len(tokens) = 2 /\ tokens[1] = "shift" /\ tokens[2] \in ShiftedCharacters) =>
             /\ Len(result) > 0
             /\ \A n \in 1..Len(result) : result[n].shiftKey

C13_Witness ==
  /\ Parsed
  /\ "inferShift" \notin call.options.given
  /\ ~call.combination.isArray
  /\ call.combination.text = "ctrl-+"
  /\ optSplitBy(call.options) = "-"
  /\ Len(result) = 2
  /\ result[2].code = "Equal"
  /\ result[2].key = "+"
  /\ ~result[1].shiftKey
  /\ ~result[2].shiftKey

\* C14: with inferShift enabled, "ctrl+=" still has shiftKey false (the
\* base key is not typed with Shift), and "ctrl+plus" gives two variants
\* with ctrlKey true: NumpadAdd with shiftKey false, then Equal with
\* shiftKey true.
C14_InferShiftOnPlus ==
  (Parsed /\ optInferShift(call.options)) =>
    /\ isText("ctrl+=") =>
         /\ Len(result) > 0
         /\ \A n \in 1..Len(result) : result[n].ctrlKey /\ ~result[n].shiftKey
    /\ isText("ctrl+plus") =>
         /\ Len(result) = 2
         /\ result[1].code = "NumpadAdd" /\ result[1].ctrlKey /\ ~result[1].shiftKey
         /\ result[2].code = "Equal" /\ result[2].ctrlKey /\ result[2].shiftKey

-----------------------------------------------------------------------------
(* Properties of matchesHotkeys.                                            *)

Matched == returned /\ call.fn = "matchesHotkeys"

(* The variants of each hotkey of the call, parsed with its own options on *)
(* the platform the call ran on.                                            *)
variantsOfCall ==
  [i \in 1..Len(call.hotkeys) |->
     parseCombination(call.hotkeys[i].combination, call.hotkeys[i].options, calledOn)]

variantsOf(i) == variantsOfCall[i]

comparatorOfCall ==
  IF "comparator" \in call.options.given THEN call.options.comparator
  ELSE DEFAULT_COMPARATOR

RECURSIVE hotkeysWithVariants(_, _)
hotkeysWithVariants(variants, i) ==
  IF i > Len(call.hotkeys) THEN << >>
  ELSE (IF variants[i] = << >> THEN << >> ELSE << call.hotkeys[i] >>)
       \o hotkeysWithVariants(variants, i + 1)

\* C15: matchesHotkeys returns true exactly when some hotkey of the list
\* has some variant, parsed with that hotkey's own options, on which the
\* comparator holds against the event; it returns false for the empty list;
\* a hotkey that parses to the empty list matches nothing and leaves the
\* outcome to the other hotkeys, wherever it stands in the list.
C15_TrueIffSomeVariantOfSomeHotkeyMatches ==
  Matched =>
    LET variants == variantsOfCall
        valid == hotkeysWithVariants(variants, 1)
    IN  /\ result = (\E i \in 1..Len(variants) : \E n \in 1..Len(variants[i]) :
                       compare(comparatorOfCall, variants[i][n], call.event))
        /\ call.hotkeys = << >> => result = FALSE
        /\ valid = << >> => result = FALSE
        /\ Len(valid) < Len(call.hotkeys) =>
             result = matchesHotkeys(valid, call.event, call.options, calledOn)

C15_Witness ==
  /\ Matched
  /\ Len(call.hotkeys) = 2
  /\ call.hotkeys[1].combination.text = "ControlLeft+a"
  /\ variantsOf(1) = << >>
  /\ call.hotkeys[2].combination.text = "ctrl+a"
  /\ call.event = CtrlA
  /\ result = TRUE

ModifierFlagsEqual(a, b) ==
  /\ a.altKey = b.altKey
  /\ a.ctrlKey = b.ctrlKey
  /\ a.metaKey = b.metaKey
  /\ a.shiftKey = b.shiftKey

DefaultMatch(variant, event) ==
  /\ ModifierFlagsEqual(variant, event)
  /\ \/ variant.key = event.key
     \/ variant.code = event.code
     \/ variant.keyCode = event.keyCode
     \/ variant.which = event.which

\* C16: with the default comparator a variant matches an event exactly when
\* the four modifier flags (altKey, ctrlKey, metaKey, shiftKey) are equal
\* between the two and at least one of the four fields key, code, keyCode
\* and which is equal; so a call with the default comparator returns true
\* only when some variant has exactly the event's modifiers, and a hotkey
\* does not match an event that holds one modifier more or one less.
C16_DefaultComparatorNeedsExactModifiers ==
  (Matched /\ "comparator" \notin call.options.given) =>
    /\ LET variants == variantsOfCall
       IN  /\ result = (\E i \in 1..Len(variants) : \E n \in 1..Len(variants[i]) :
                          DefaultMatch(variants[i][n], call.event))
           /\ result =>
                \E i \in 1..Len(variants) : \E n \in 1..Len(variants[i]) :
                  ModifierFlagsEqual(variants[i][n], call.event)
    /\ (Len(call.hotkeys) = 1 /\ call.hotkeys[1].combination.text = "ctrl+a") =>
         /\ call.event \in { CtrlShiftA, PlainA } => result = FALSE
         /\ call.event \in { CtrlA, CtrlWhich65 } => result = TRUE

C16_Witness ==
  /\ Matched
  /\ "comparator" \notin call.options.given
  /\ Len(call.hotkeys) = 1
  /\ call.hotkeys[1].combination.text = "ctrl+a"
  /\ call.event = CtrlShiftA
  /\ variantsOf(1)[1].code = call.event.code
  /\ variantsOf(1)[1].key = call.event.key
  /\ result = FALSE

\* C17: the hotkey "mod+s" matches the event of the S key with metaKey
\* true and ctrlKey false when the user agent names a Mac, and the event of
\* the S key with ctrlKey true and metaKey false on any other platform, and
\* in each case does not match the other event.
C17_ModFollowsThePlatform ==
  (Matched /\ "comparator" \notin call.options.given
     /\ Len(call.hotkeys) = 1 /\ call.hotkeys[1].combination.text = "mod+s"
     /\ call.event \in { MetaS, CtrlS }) =>
    result = IF includes(calledOn, "Mac")
               THEN call.event.metaKey /\ ~call.event.ctrlKey
               ELSE call.event.ctrlKey /\ ~call.event.metaKey

C17_Witness ==
  /\ Matched
  /\ "comparator" \notin call.options.given
  /\ Len(call.hotkeys) = 1
  /\ call.hotkeys[1].combination.text = "mod+s"
  /\ call.event = MetaS
  /\ calledOn = MacUserAgent
  /\ userAgent = WindowsUserAgent
  /\ result = TRUE

\* C18: with default parse options and the default comparator the hotkey
\* "ctrl+plus" matches the Ctrl+NumpadAdd event (code NumpadAdd, key "+",
\* ctrlKey true, shiftKey false) and the Ctrl+Shift+Equal event (code Equal,
\* key "+", keyCode 187, ctrlKey true, shiftKey true).
C18_CtrlPlusMatchesBothPlusKeys ==
  (Matched /\ "comparator" \notin call.options.given
     /\ Len(call.hotkeys) = 1 /\ call.hotkeys[1].combination.text = "ctrl+plus"
     /\ call.hotkeys[1].options = NoOptions
     /\ call.event \in { CtrlNumpadAdd, CtrlShiftEqual }) =>
    result = TRUE

(* The call has one hotkey, Ctrl with a name of the "+" character, and the *)
(* event is the Equal key pressed with Ctrl and without Shift.              *)
PlusHotkeyOnCtrlEqual ==
  /\ Matched
  /\ "comparator" \notin call.options.given
  /\ Len(call.hotkeys) = 1
  /\ \/ call.hotkeys[1].combination.text = "ctrl+plus"
     \/ call.hotkeys[1].combination.tokens = << "ctrl", "+" >>
  /\ call.event = CtrlEqual

-----------------------------------------------------------------------------
(* Properties of the comparator combinators.                                *)

Compared == returned /\ call.fn = "comparator"

reordered(conds, p) == [i \in 1..Len(conds) |-> conds[p[i]]]

\* C20: the verdict of and(...) and of or(...) on a pair of records does
\* not depend on the order of the arguments: every reordering of the
\* comparators given to the combinator gives the same verdict on the pair.
C20_ArgumentOrderIsIrrelevant ==
  Compared =>
    \A p \in Permutations(1..Len(call.comparator.conds)) :
      compare([call.comparator EXCEPT !.conds = reordered(call.comparator.conds, p)],
              call.a, call.b) = result

C20_Witness ==
  /\ Compared
  /\ call.comparator.op = "and"
  /\ Len(call.comparator.conds) = 2
  /\ compare(call.comparator.conds[1], call.a, call.b)
  /\ ~compare(call.comparator.conds[2], call.a, call.b)
  /\ result = FALSE

-----------------------------------------------------------------------------
(* Further properties of parseCombination.                                  *)

VariantFields ==
  { "key", "code", "keyCode", "which", "metaKey", "ctrlKey", "shiftKey", "altKey" }

LowerCaseKeyValues == { toLowerCase(k) : k \in AllKeys \cup AllShiftedKeys }

LowerCaseKeyAliasNames == { toLowerCase(a) : a \in AllKeyAliases }

(* No stage of the resolver knows the token: it is no code, code alias,    *)
(* key value or key alias of the registry.                                  *)
unknownToRegistry(token) ==
  /\ token \notin LowerCaseCodes
  /\ token \notin LowerCaseCodeAliases
  /\ token \notin LowerCaseKeyValues
  /\ token \notin LowerCaseKeyAliasNames

(* The main key of the call as the resolver receives it.                    *)
mainKeyOfCall == platformName(tokensOfCall[Len(tokensOfCall)])

\* C21: whatever the combination, parseCombination returns a list, possibly
\* empty, and every element has exactly the eight fields key, code (strings),
\* keyCode, which (integers), metaKey, ctrlKey, shiftKey, altKey (booleans);
\* keyCode and which are -1 exactly when the main key is unknown to the
\* registry, and then key and code are the main key itself.
C21_ResultIsWellShaped ==
  Parsed =>
    /\ DOMAIN result = 1..Len(result)
    /\ \A n \in 1..Len(result) :
         /\ DOMAIN result[n] = VariantFields
         /\ result[n].key \in STRING
         /\ result[n].code \in STRING
         /\ result[n].keyCode \in Int
         /\ result[n].which \in Int
         /\ \A f \in Flags : result[n][f] \in BOOLEAN
         /\ result[n].keyCode = -1 <=> unknownToRegistry(mainKeyOfCall)
         /\ result[n].which = -1 <=> unknownToRegistry(mainKeyOfCall)
         /\ unknownToRegistry(mainKeyOfCall) =>
              (result[n].key = mainKeyOfCall /\ result[n].code = mainKeyOfCall)
         /\ result[n].which = result[n].keyCode
    /\ \A i \in 1..Len(KEY_DEFINITIONS) : KEY_DEFINITIONS[i].keyCode # -1

C21_Witness ==
  /\ Parsed
  /\ ~call.combination.isArray
  /\ call.combination.text = "ctrl+FooBar"
  /\ unknownToRegistry(mainKeyOfCall)
  /\ Len(result) = 1
  /\ result[1].keyCode = -1
  /\ result[1].which = -1
  /\ result[1].ctrlKey

-----------------------------------------------------------------------------
(* Properties of sequences of calls.                                        *)

(* The modifier that "mod" stands for under a user agent, and a token with *)
(* "mod" written out as that modifier.                                      *)
modNameOn(ua) == IF includes(ua, "Mac") THEN "meta" ELSE "control"

writtenOut(token, ua) == IF toLowerCase(token) = "mod" THEN modNameOn(ua) ELSE token

otherUserAgent(ua) == CHOOSE other \in UserAgents : other # ua

combinationWrittenOut(combination, ua) ==
  LET tokens == IF combination.isArray THEN combination.tokens
                ELSE split(combination.text, "+")
  IN  IF combination.isArray
        THEN ArrayCombination([i \in 1..Len(tokens) |-> writtenOut(tokens[i], ua)])
        ELSE StringCombination(join([i \in 1..Len(tokens) |-> writtenOut(tokens[i], ua)], "+"))

(* What a call returns under a user agent, stated without "mod": every     *)
(* "mod" token is written out as the modifier of that user agent, and the  *)
(* call is then evaluated under the other user agent.                       *)
expectedOn(c, ua) ==
  CASE c.fn = "resolveKey" ->
         resolveKey(writtenOut(c.input, ua), otherUserAgent(ua))
    [] c.fn = "parseCombination" ->
         parseCombination(combinationWrittenOut(c.combination, ua), c.options,
                          otherUserAgent(ua))
    [] c.fn = "matchesHotkeys" ->
         matchesHotkeys([i \in 1..Len(c.hotkeys) |->
                           Hotkey(combinationWrittenOut(c.hotkeys[i].combination, ua),
                                  c.hotkeys[i].options)],
                        c.event, c.options, otherUserAgent(ua))

(* A step in which a call returns: the user agent stays and a result is    *)
(* there afterwards.                                                        *)
ACallReturns == returned' /\ userAgent' = userAgent

\* C22: the user agent is read at every call and never remembered: in every
\* sequence of resolveKey, parseCombination and matchesHotkeys calls with
\* changes of the user agent in between, each call returns what it returns
\* with "mod" written out as the modifier of the user agent in effect at
\* that call (Meta when it names a Mac, Control otherwise), whatever the
\* earlier calls returned and whatever the user agent was then.
C22_PlatformIsReadAtEveryCall ==
  [][ACallReturns => result' = expectedOn(call', userAgent)]_vars

C22_Witness ==
  /\ returned
  /\ call.fn = "parseCombination"
  /\ call.combination.text = "mod+a"
  /\ calledOn = WindowsUserAgent
  /\ userAgent = MacUserAgent
  /\ Len(result) = 1
  /\ result[1].ctrlKey
  /\ ~result[1].metaKey

-----------------------------------------------------------------------------
(* Properties of shift inference.                                           *)

withInferShift(options, value) ==
  [options EXCEPT !.given = @ \cup { "inferShift" }, !.inferShift = value]

(* The variant's code and key are a base code and its shifted character.   *)
isShiftMapping(variant) ==
  \E i \in 1..Len(SHIFT_KEY_MAPPINGS) :
    /\ SHIFT_KEY_MAPPINGS[i].code = variant.code
    /\ SHIFT_KEY_MAPPINGS[i].shiftedKey = variant.key

\* C23: enabling inferShift only adds shiftKey true.  For every combination
\* and every setting of the other options, the result with inferShift true
\* has the length and order of the result with inferShift false (or not
\* given), and each variant is the same except that shiftKey is true also on
\* exactly the variants whose code and key are an entry of the shift
\* mappings; a shiftKey that an explicit shift token made true stays true.
C23_InferShiftOnlyAddsShift ==
  Parsed =>
    LET other == parseCombination(call.combination,
                                  withInferShift(call.options, ~optInferShift(call.options)),
                                  calledOn)
        on == IF optInferShift(call.options) THEN result ELSE other
        off == IF optInferShift(call.options) THEN other ELSE result
    IN  /\ Len(on) = Len(off)
        /\ \A n \in 1..Len(off) :
             /\ on[n] = [off[n] EXCEPT !.shiftKey = off[n].shiftKey \/ isShiftMapping(off[n])]
             /\ off[n].shiftKey => on[n].shiftKey
             /\ (on[n].shiftKey /\ ~off[n].shiftKey) => isShiftMapping(on[n])
        /\ "inferShift" \notin call.options.given =>
             result = parseCombination(call.combination,
                                       withInferShift(call.options, FALSE), calledOn)

C23_Witness ==
  /\ Parsed
  /\ optInferShift(call.options)
  /\ tokensOfCall = << "ctrl", "+" >>
  /\ Len(result) = 2
  /\ result[1].code = "NumpadAdd" /\ result[1].key = "+" /\ ~result[1].shiftKey
  /\ result[2].code = "Equal" /\ result[2].key = "+" /\ result[2].shiftKey
  /\ ~isShiftMapping(result[1])
  /\ isShiftMapping(result[2])

-----------------------------------------------------------------------------
(* Properties of the names of the modifiers.                                *)

CanonicalName ==
  [metaKey |-> "meta", ctrlKey |-> "control", shiftKey |-> "shift", altKey |-> "alt"]

(* The canonical key name of the modifier a token names, or the token.      *)
canonicalNameOf(token) ==
  IF flagsNamedBy(token) = {} THEN token
  ELSE CanonicalName[CHOOSE f \in Flags : f \in flagsNamedBy(token)]

withCanonicalModifiers(tokens) ==
  [i \in 1..Len(tokens) |-> IF i < Len(tokens) THEN canonicalNameOf(tokens[i]) ELSE tokens[i]]

CtrlNames == { "ctrl+a", "control+a", "ControlLeft+a", "ControlRight+a", "lctrl+a" }

\* C24: in a modifier position every name of the same modifier is
\* interchangeable.  The canonical key name, its key aliases, the code names
\* of both sides and their code aliases all map to the same flag, so with
\* default options a combination parses to the result of the same
\* combination with every leading token replaced by the canonical name of
\* its modifier; "ctrl+a", "control+a", "ControlLeft+a", "ControlRight+a"
\* and "lctrl+a" give the identical single variant, and the same holds for
\* the names of shift, alt and meta.
C24_ModifierNamesAreInterchangeable ==
  Parsed =>
    LET tokens == tokensOfCall
    IN  /\ result = parseCombination(ArrayCombination(withCanonicalModifiers(tokens)),
                                     NoOptions, calledOn)
        /\ \A f \in Flags : \A name \in ModifierNamesOf[f] :
             MapHas(MODIFIER_KEY_MAP, name) /\ MapGet(MODIFIER_KEY_MAP, name) = f
        /\ { toLowerCase(t) : t \in ModifierNameTokens }
             = UNION { ModifierNamesOf[f] : f \in Flags }
        /\ (~call.combination.isArray /\ call.combination.text \in CtrlNames) =>
             result = << [code |-> "KeyA", key |-> "a", keyCode |-> 65, which |-> 65,
                          ctrlKey |-> TRUE, metaKey |-> FALSE,
                          shiftKey |-> FALSE, altKey |-> FALSE] >>
        /\ (Len(tokens) = 2 /\ tokens[2] = "a") =>
             \A f \in flagsNamedBy(tokens[1]) :
               /\ Len(result) = 1
               /\ \A g \in Flags : result[1][g] = (g = f)

C24_Witness ==
  /\ Parsed
  /\ ~call.combination.isArray
  /\ call.combination.text = "RIGHTOPTION+a"
  /\ Len(result) = 1
  /\ result[1].altKey
  /\ result = parseCombination(StringCombination("alt+a"), NoOptions, calledOn)

\* C28: whether a combination with "mod" is valid depends on the platform,
\* because duplicates are looked for after "mod" has been replaced.
\* "mod+ctrl+a" is the empty list where the user agent names no Mac and has
\* metaKey and ctrlKey both true where it does; "mod+meta+a" and "mod+cmd+a"
\* are the empty list on a Mac and have both flags true elsewhere.
C28_ModDuplicateDependsOnPlatform ==
  (Parsed /\ Len(tokensOfCall) = 3 /\ tokensOfCall[1] = "mod"
     /\ tokensOfCall[2] \in SecondNameTokens) =>
    LET second == tokensOfCall[2]
        clash == IF includes(calledOn, "Mac") THEN second \in { "meta", "cmd" }
                 ELSE second = "ctrl"
    IN  IF clash THEN result = << >>
        ELSE /\ Len(result) > 0
             /\ \A n \in 1..Len(result) :
                  /\ result[n].metaKey /\ result[n].ctrlKey
                  /\ ~result[n].shiftKey /\ ~result[n].altKey

C28_Witness ==
  /\ Parsed
  /\ ~call.combination.isArray
  /\ call.combination.text = "mod+ctrl+a"
  /\ calledOn = MacUserAgent
  /\ Len(result) = 1
  /\ result[1].metaKey
  /\ result[1].ctrlKey
  /\ parseCombination(call.combination, call.options, WindowsUserAgent) = << >>

inCase(combination, convert(_)) ==
  IF combination.isArray
    THEN ArrayCombination([i \in 1..Len(combination.tokens) |-> convert(combination.tokens[i])])
    ELSE StringCombination(convert(combination.text))

\* C30: parseCombination lowercases every token before anything else, so
\* its result does not depend on the letter case of any token: the
\* combination written in small letters and written in capitals gives the
\* same result.  For a main key unknown to the registry the variant's key
\* and code are the lowercased token ("ctrl+FooBar" gives key = code =
\* "foobar"), whereas resolveKey called with the token itself keeps its
\* letter case.
C30_LetterCaseIsIrrelevant ==
  Parsed =>
    /\ result = parseCombination(inCase(call.combination, toLowerCase), call.options, calledOn)
    /\ result = parseCombination(inCase(call.combination, toUpperCase), call.options, calledOn)
    /\ (result # << >> /\ unknownToRegistry(mainKeyOfCall)) =>
         LET raw == rawTokens(call.combination, call.options)
             main == raw[Len(raw)]
         IN  /\ Len(result) = 1
             /\ result[1].key = toLowerCase(main)
             /\ result[1].code = toLowerCase(main)
             /\ resolveKey(main, calledOn)
                  = << [key |-> main, code |-> main, keyCode |-> -1, which |-> -1] >>
    /\ (~call.combination.isArray /\ call.combination.text = "ctrl+FooBar") =>
         /\ Len(result) = 1
         /\ result[1].key = "foobar"
         /\ result[1].code = "foobar"

C30_Witness ==
  /\ Parsed
  /\ ~call.combination.isArray
  /\ call.combination.text = "CTRL+FooBar"
  /\ Len(result) = 1
  /\ result[1].key = "foobar"
  /\ result[1].code = "foobar"
  /\ result[1].ctrlKey
  /\ resolveKey("FooBar", calledOn)[1].key = "FooBar"

-----------------------------------------------------------------------------
(* The causes of an empty result.                                           *)

\* C26: resolveKey returns at least one record for every non-empty token,
\* so a main key that resolves to nothing is never the cause of an empty
\* result: parseCombination returns the empty list if and only if the token
\* list is empty, some token is empty after normalization, a token before
\* the last is no modifier name (or is a code token while
\* allowCodeAsModifier is false), or two tokens map to the same flag.
C26_EmptyResultHasFourCauses ==
  Parsed =>
    LET tokens == tokensOfCall
        named == [i \in 1..Len(tokens) |-> flagsNamedBy(tokens[i])]
        rejected ==
          \/ Len(tokens) = 0
          \/ \E i \in 1..Len(tokens) : tokens[i] = ""
          \/ \E i \in 1..(Len(tokens) - 1) :
               \/ named[i] = {}
               \/ /\ ~optAllowCodeAsModifier(call.options)
                  /\ platformName(tokens[i]) \in ModifierCodeNames
          \/ \E i, j \in 1..Len(tokens) : i < j /\ named[i] \cap named[j] # {}
    IN  /\ (result = << >>) <=> rejected
        /\ (Len(tokens) > 0 /\ tokens[Len(tokens)] # "") =>
             Len(resolveKey(mainKeyOfCall, calledOn)) > 0

C26_Witness ==
  /\ Parsed
  /\ Len(tokensOfCall) = 2
  /\ flagsNamedBy(tokensOfCall[1]) = { "ctrlKey" }
  /\ unknownToRegistry(tokensOfCall[2])
  /\ Len(result) = 1
  /\ result[1].keyCode = -1
  /\ result[1].ctrlKey

-----------------------------------------------------------------------------
(* Key aliases that are also code names.                                    *)

codesOf(resolved) == [n \in 1..Len(resolved) |-> resolved[n].code]

SingleCodeNames == { "minus", "period", "enter" }

BothCodesOf ==
  [t \in { "dash", "-", "dot", ".", "return" } |->
     CASE t \in { "dash", "-" } -> << "Minus", "NumpadSubtract" >>
       [] t \in { "dot", "." }  -> << "Period", "NumpadDecimal" >>
       [] t = "return"          -> << "Enter", "NumpadEnter" >>]

\* C27: a key alias that is also, in any letter case, a code name is
\* resolved at the code stage and so to a single record, the one of that
\* code, unlike the other names of the same key: "minus" gives only Minus
\* while "dash" and "-" give Minus and NumpadSubtract; "period" gives only
\* Period while "dot" and "." give Period and NumpadDecimal; "enter" gives
\* only Enter while "return" gives Enter and NumpadEnter.
C27_AliasThatIsACodeResolvesOnce ==
  Resolved =>
    LET token == toLowerCase(call.input)
    IN  /\ (token \in LowerCaseKeyAliasNames /\ token \in LowerCaseCodes) =>
             /\ Len(result) = 1
             /\ toLowerCase(result[1].code) = token
        /\ token \in SingleCodeNames =>
             /\ Len(result) = 1
             /\ toLowerCase(result[1].code) = token
             /\ result[1].code \in { "Minus", "Period", "Enter" }
        /\ token \in DOMAIN BothCodesOf => codesOf(result) = BothCodesOf[token]

C27_Witness ==
  /\ Resolved
  /\ call.input = "minus"
  /\ "minus" \in LowerCaseKeyAliasNames
  /\ codesOf(result) = << "Minus" >>
  /\ codesOf(resolveKey("dash", calledOn)) = << "Minus", "NumpadSubtract" >>

-----------------------------------------------------------------------------
(* Side-specific modifiers as hotkeys.                                      *)

(* A call with one side-specific modifier as its only hotkey.               *)
MatchedSide ==
  /\ Matched
  /\ Len(call.hotkeys) = 1
  /\ ~call.hotkeys[1].combination.isArray
  /\ call.hotkeys[1].combination.text \in SideCodes

flagOfSide(code) == CHOOSE f \in Flags : \E n \in 1..2 : SideCodesOf[f][n] = code

(* The event is the key of the same modifier going down, on either side.   *)
sameModifierDown(code, event) ==
  /\ event.code \in SideCodes
  /\ flagOfSide(event.code) = flagOfSide(code)
  /\ event[flagOfSide(code)]

otherSideDown(code, event) == sameModifierDown(code, event) /\ event.code # code

(* What every comparator gives on the hotkey's own side and where the      *)
(* default comparator and the comparison by code stand.                     *)
sidesUnderDefaultAndCode ==
  LET code == call.hotkeys[1].combination.text
      variants == variantsOfCall[1]
      event == call.event
  IN  /\ Len(variants) = 1
      /\ variants[1].code = code
      /\ \A f \in Flags : variants[1][f] = (f = flagOfSide(code))
      /\ sameModifierDown(code, event) =>
           /\ variants[1].key = event.key
           /\ ModifierFlagsEqual(variants[1], event)
           /\ (flagOfSide(code) # "metaKey") => variants[1].keyCode = event.keyCode
      /\ ~sameModifierDown(code, event) => ~result
      /\ (sameModifierDown(code, event) /\ event.code = code) => result
      /\ comparatorOfCall = DEFAULT_COMPARATOR => result = sameModifierDown(code, event)
      /\ comparatorOfCall = COMPARE_BY_CODE =>
           result = (sameModifierDown(code, event) /\ event.code = code)

\* C29 as stated: with the default comparator the single variant of
\* "ControlLeft" ("ShiftLeft", "AltLeft", "MetaLeft", and the right-hand
\* names) also matches the event of the key of the same modifier on the
\* other side, and of the library's comparators only the comparison by code
\* tells the two sides apart.
C29_OnlyCodeComparatorTellsSidesApart ==
  MatchedSide =>
    /\ sidesUnderDefaultAndCode
    /\ (otherSideDown(call.hotkeys[1].combination.text, call.event)
          /\ comparatorOfCall # COMPARE_BY_CODE) => result

\* C29 amended: with the default comparator the single variant of a
\* side-specific modifier matches the key of the same modifier going down on
\* either side, because the key and the flags are equal; the comparison by
\* code matches the hotkey's own side only, the comparison by key matches
\* both sides, and the comparisons by keyCode and by which match the other
\* side for Control, Shift and Alt but not for Meta, whose two sides have
\* the numeric codes 91 and 93.
C29_DefaultComparatorIgnoresSides ==
  MatchedSide =>
    LET code == call.hotkeys[1].combination.text
    IN  /\ sidesUnderDefaultAndCode
        /\ comparatorOfCall = COMPARE_BY_KEY => result = sameModifierDown(code, call.event)
        /\ (comparatorOfCall \in { COMPARE_BY_KEY_CODE, COMPARE_BY_WHICH }
              /\ otherSideDown(code, call.event)) =>
             result = (flagOfSide(code) # "metaKey")

C29_Witness ==
  /\ MatchedSide
  /\ call.hotkeys[1].combination.text = "MetaLeft"
  /\ call.event.code = "MetaRight"
  /\ call.event.metaKey
  /\ comparatorOfCall = DEFAULT_COMPARATOR
  /\ result
  /\ ~matchesHotkeys(call.hotkeys, call.event,
                     [given |-> { "comparator" }, comparator |-> COMPARE_BY_CODE], calledOn)
  /\ ~matchesHotkeys(call.hotkeys, call.event,
                     [given |-> { "comparator" }, comparator |-> COMPARE_BY_KEY_CODE], calledOn)

====
